---- MODULE Spec2Model ----
(***************************************************************************)
(* HDL parser and chip simulator (hdl_parser package).                     *)
(*                                                                         *)
(* The state is the parser's registry (HDLParser.chips_cache), the         *)
(* simulator's signal environment (ChipSimulator.signal_values, ONE        *)
(* attribute of the simulator object, shared by every nested simulate      *)
(* call), the working directory with the .hdl source units, and a record   *)
(* activations of simulate that are inside their relaxation loop (the      *)
(* call stack), and a record of the last call made on the API.  A call of  *)
(* simulate advances one part evaluation at a time: a primitive part is    *)
(* one step, a composite part is a call step and, when the nested loop is  *)
(* over, a return step.  TestRunner.run_tests advances one test vector at  *)
(* a time around the simulate call it makes for the vector.                *)
(***************************************************************************)
EXTENDS Integers, Sequences, FiniteSets, TLC

VARIABLES files, chips_cache, signal_values, stack, call, last, obs, memo,
          runner

vars == <<files, chips_cache, signal_values, stack, call, last, obs, memo,
          runner>>

----------------------------------------------------------------------------
(* Bounds of the model *)

\* nesting depth of simulate at which the interpreter gives up the recursion
\* (CPython's recursion limit, scaled down)
RecursionLimit == 4

\* values a caller passes for an input pin
Bits == {0, 1}

----------------------------------------------------------------------------
(* Python dictionaries *)

EmptyDict == [k \in {} |-> 0]

\* d.get(k, default)
Get(d, k, default) == IF k \in DOMAIN d THEN d[k] ELSE default

\* d[k] = v
Put(d, k, v) == [x \in (DOMAIN d) \cup {k} |-> IF x = k THEN v ELSE d[x]]

\* the value None
None == [none |-> TRUE]

\* an exception is a record of its class and its message
Error(type, msg) == [type |-> type, msg |-> msg]

NoError == Error("", "")

SeqToSet(s) == {s[i] : i \in 1..Len(s)}

----------------------------------------------------------------------------
(* models.py *)

Connection(source, destination) ==
    [source |-> source, destination |-> destination]

ChipInstance(chip_type, name, connections) ==
    [chip_type |-> chip_type, name |-> name, connections |-> connections]

ChipDefinition(name, inputs, outputs, parts, internal_pins) ==
    [name |-> name, inputs |-> inputs, outputs |-> outputs,
     parts |-> parts, internal_pins |-> internal_pins]

----------------------------------------------------------------------------
(* parser.py *)

built_in_chips ==
    [n \in {"Nand", "Not", "And", "Or"} |->
        ChipDefinition(n, IF n = "Not" THEN <<"in">> ELSE <<"a", "b">>,
                       <<"out">>, <<>>, {})]

\* HDLParser.__init__: the registry starts as the four built-ins
InitialCache == built_in_chips

\* one "dest=src" pair of the text becomes Connection(source, destination)
_parse_connections(conns) ==
    [i \in 1..Len(conns) |-> Connection(conns[i][2], conns[i][1])]

\* the second test of the loop adding the destination instead of the source
PartInternalPins_AddsDestination(connections, inputs, outputs) ==
    {connections[i].source : i \in
        {j \in 1..Len(connections) :
            /\ connections[j].source \notin SeqToSet(inputs)
            /\ connections[j].source \notin SeqToSet(outputs)}}
    \cup
    {connections[i].destination : i \in
        {j \in 1..Len(connections) :
            /\ connections[j].destination \in {"a", "b", "in"}
            /\ connections[j].source \notin SeqToSet(inputs)
            /\ connections[j].source \notin SeqToSet(outputs)}}

\* the internal pins one part adds
PartInternalPins(connections, inputs, outputs) ==
    {connections[i].source : i \in
        {j \in 1..Len(connections) :
            \/ /\ connections[j].source \notin SeqToSet(inputs)
               /\ connections[j].source \notin SeqToSet(outputs)
            \/ /\ connections[j].destination \in {"a", "b", "in"}
               /\ connections[j].source \notin SeqToSet(inputs)
               /\ connections[j].source \notin SeqToSet(outputs)}}

\* (variant: the instance name counts the earlier parts of the same type)
_parse_parts_section_CountsPerType(parts_text, inputs, outputs) ==
    LET parts == [k \in 1..Len(parts_text) |->
                    ChipInstance(parts_text[k].type,
                                 parts_text[k].type \o "_" \o ToString(
                                    Cardinality({j \in 1..(k - 1) :
                                        parts_text[j].type =
                                            parts_text[k].type})),
                                 _parse_connections(parts_text[k].conns))]
        internal_pins == UNION {PartInternalPins(parts[k].connections,
                                                 inputs, outputs) :
                                    k \in 1..Len(parts)}
    IN  <<parts, internal_pins>>

\* returns <<parts, internal_pins>>
_parse_parts_section(parts_text, inputs, outputs) ==
    LET parts == [k \in 1..Len(parts_text) |->
                    ChipInstance(parts_text[k].type,
                                 parts_text[k].type \o "_" \o ToString(k - 1),
                                 _parse_connections(parts_text[k].conns))]
        internal_pins == UNION {PartInternalPins(parts[k].connections,
                                                 inputs, outputs) :
                                    k \in 1..Len(parts)}
    IN  <<parts, internal_pins>>

InvalidFormat ==
    Error("ValueError", "Invalid HDL format - no CHIP definition found")

\* parse_hdl that assigns a new dictionary instead of one key
parse_hdl_Replaces(content, cache) ==
    IF ~content.chip
    THEN [chip_def |-> None, chips_cache |-> cache, error |-> InvalidFormat]
    ELSE LET pp == _parse_parts_section(content.parts, content.ins, content.outs)
             chip_def == ChipDefinition(content.name, content.ins, content.outs,
                                        pp[1], pp[2])
         IN  [chip_def |-> chip_def,
              chips_cache |-> Put(EmptyDict, content.name, chip_def),
              error |-> NoError]

\* parse_hdl that leaves an entry alone when the name is in the registry
parse_hdl_KeepsFirst(content, cache) ==
    IF ~content.chip
    THEN [chip_def |-> None, chips_cache |-> cache, error |-> InvalidFormat]
    ELSE LET pp == _parse_parts_section(content.parts, content.ins, content.outs)
             chip_def == ChipDefinition(content.name, content.ins, content.outs,
                                        pp[1], pp[2])
         IN  [chip_def |-> chip_def,
              chips_cache |-> IF content.name \in DOMAIN cache THEN cache
                              ELSE Put(cache, content.name, chip_def),
              error |-> NoError]

\* parse_hdl that stores the definition before it looks for the CHIP block
parse_hdl_CachesFirst(content, cache) ==
    LET pp == _parse_parts_section(content.parts, content.ins, content.outs)
        chip_def == ChipDefinition(content.name, content.ins, content.outs,
                                   pp[1], pp[2])
    IN  IF ~content.chip
        THEN [chip_def |-> None,
              chips_cache |-> Put(cache, content.name, chip_def),
              error |-> InvalidFormat]
        ELSE [chip_def |-> chip_def,
              chips_cache |-> Put(cache, content.name, chip_def),
              error |-> NoError]

\* returns the definition (or None), the registry after the call, the error
parse_hdl(content, cache) ==
    IF ~content.chip
    THEN [chip_def |-> None, chips_cache |-> cache, error |-> InvalidFormat]
    ELSE LET pp == _parse_parts_section(content.parts, content.ins, content.outs)
             chip_def == ChipDefinition(content.name, content.ins, content.outs,
                                        pp[1], pp[2])
         IN  [chip_def |-> chip_def,
              chips_cache |-> Put(cache, content.name, chip_def),
              error |-> NoError]

FileNotFound(filename) ==
    Error("FileNotFoundError", "HDL file not found: " \o filename)

parse_file(filename, cache) ==
    IF filename \notin DOMAIN files
    THEN [chip_def |-> None, chips_cache |-> cache,
          error |-> FileNotFound(filename)]
    ELSE parse_hdl(files[filename], cache)

\* get_chip_definition that looks in the registry only
get_chip_definition_CacheOnly(chip_name, cache) ==
    IF chip_name \in DOMAIN cache
    THEN [chip_def |-> cache[chip_name], chips_cache |-> cache,
          error |-> NoError]
    ELSE [chip_def |-> None, chips_cache |-> cache, error |-> NoError]

\* get_chip_definition without the except clause: the error of parse_file
\* reaches the caller
get_chip_definition_NoCatch(chip_name, cache) ==
    IF chip_name \in DOMAIN cache
    THEN [chip_def |-> cache[chip_name], chips_cache |-> cache,
          error |-> NoError]
    ELSE parse_file(chip_name \o ".hdl", cache)

get_chip_definition(chip_name, cache) ==
    IF chip_name \in DOMAIN cache
    THEN [chip_def |-> cache[chip_name], chips_cache |-> cache,
          error |-> NoError]
    ELSE LET chip_file == chip_name \o ".hdl"
             r == parse_file(chip_file, cache)
         IN  IF r.error.type = "FileNotFoundError"
             THEN [chip_def |-> None, chips_cache |-> r.chips_cache,
                   error |-> NoError]
             ELSE r

----------------------------------------------------------------------------
(* simulator.py *)

\* a cap that is one pass short
max_iterations_OneShort == 100 - 1

\* ChipSimulator.__init__
max_iterations == 100

Truthy(v) == v # 0

\* _evaluate_builtin reading a missing pin as 1
_evaluate_builtin_DefaultOne(chip_type, inputs) ==
    IF chip_type = "Nand"
    THEN IF Truthy(Get(inputs, "a", 1)) /\ Truthy(Get(inputs, "b", 1))
         THEN 0 ELSE 1
    ELSE IF chip_type = "Not"
    THEN IF Truthy(Get(inputs, "in", 1)) THEN 0 ELSE 1
    ELSE IF chip_type = "And"
    THEN IF Truthy(Get(inputs, "a", 1)) /\ Truthy(Get(inputs, "b", 1))
         THEN 1 ELSE 0
    ELSE IF chip_type = "Or"
    THEN IF Truthy(Get(inputs, "a", 1)) \/ Truthy(Get(inputs, "b", 1))
         THEN 1 ELSE 0
    ELSE 0

\* _evaluate_builtin without the inversion of Nand
_evaluate_builtin_NandAsAnd(chip_type, inputs) ==
    IF chip_type = "Not"
    THEN IF Truthy(Get(inputs, "in", 0)) THEN 0 ELSE 1
    ELSE IF chip_type \in {"Nand", "And"}
    THEN IF Truthy(Get(inputs, "a", 0)) /\ Truthy(Get(inputs, "b", 0))
         THEN 1 ELSE 0
    ELSE IF chip_type = "Or"
    THEN IF Truthy(Get(inputs, "a", 0)) \/ Truthy(Get(inputs, "b", 0))
         THEN 1 ELSE 0
    ELSE 0

_evaluate_builtin(chip_type, inputs) ==
    IF chip_type = "Nand"
    THEN IF Truthy(Get(inputs, "a", 0)) /\ Truthy(Get(inputs, "b", 0))
         THEN 0 ELSE 1
    ELSE IF chip_type = "Not"
    THEN IF Truthy(Get(inputs, "in", 0)) THEN 0 ELSE 1
    ELSE IF chip_type = "And"
    THEN IF Truthy(Get(inputs, "a", 0)) /\ Truthy(Get(inputs, "b", 0))
         THEN 1 ELSE 0
    ELSE IF chip_type = "Or"
    THEN IF Truthy(Get(inputs, "a", 0)) \/ Truthy(Get(inputs, "b", 0))
         THEN 1 ELSE 0
    ELSE 0

\* _simulate_builtin_chip with the Or branch computing a conjunction
_simulate_builtin_chip_OrAsAnd(chip_def, inputs) ==
    LET output_val ==
            IF chip_def.name = "Nand"
            THEN IF Truthy(Get(inputs, "a", 0)) /\ Truthy(Get(inputs, "b", 0))
                 THEN 0 ELSE 1
            ELSE IF chip_def.name = "Not"
            THEN IF Truthy(Get(inputs, "in", 0)) THEN 0 ELSE 1
            ELSE IF chip_def.name \in {"And", "Or"}
            THEN IF Truthy(Get(inputs, "a", 0)) /\ Truthy(Get(inputs, "b", 0))
                 THEN 1 ELSE 0
            ELSE 0
    IN  [k \in {"out"} |-> output_val]

_simulate_builtin_chip(chip_def, inputs) ==
    LET output_val ==
            IF chip_def.name = "Nand"
            THEN IF Truthy(Get(inputs, "a", 0)) /\ Truthy(Get(inputs, "b", 0))
                 THEN 0 ELSE 1
            ELSE IF chip_def.name = "Not"
            THEN IF Truthy(Get(inputs, "in", 0)) THEN 0 ELSE 1
            ELSE IF chip_def.name = "And"
            THEN IF Truthy(Get(inputs, "a", 0)) /\ Truthy(Get(inputs, "b", 0))
                 THEN 1 ELSE 0
            ELSE IF chip_def.name = "Or"
            THEN IF Truthy(Get(inputs, "a", 0)) \/ Truthy(Get(inputs, "b", 0))
                 THEN 1 ELSE 0
            ELSE 0
    IN  [k \in {"out"} |-> output_val]

\* the index of the last connection with the given destination, 0 if none:
\* a later assignment to the same dictionary key or variable wins
LastIndex(connections, destination) ==
    LET idx == {i \in 1..Len(connections) :
                    connections[i].destination = destination}
    IN  IF idx = {} THEN 0 ELSE CHOOSE i \in idx : \A j \in idx : j <= i

\* (variant: the output is written, and no change is reported)
_simulate_builtin_part_NoReport(part, sv) ==
    LET conns == part.connections
        in_pins == {d \in {"a", "b", "in"} : LastIndex(conns, d) # 0}
        input_vals == [d \in in_pins |->
                        Get(sv, conns[LastIndex(conns, d)].source, 0)]
        o == LastIndex(conns, "out")
        output_val == _evaluate_builtin(part.chip_type, input_vals)
    IN  IF o # 0 /\ Get(sv, conns[o].source, 0) # output_val
        THEN [signal_values |-> Put(sv, conns[o].source, output_val),
              changed |-> FALSE]
        ELSE [signal_values |-> sv, changed |-> FALSE]

\* returns the environment after the part and whether a signal changed
_simulate_builtin_part(part, sv) ==
    LET conns == part.connections
        in_pins == {d \in {"a", "b", "in"} : LastIndex(conns, d) # 0}
        input_vals == [d \in in_pins |->
                        Get(sv, conns[LastIndex(conns, d)].source, 0)]
        o == LastIndex(conns, "out")
        output_val == _evaluate_builtin(part.chip_type, input_vals)
    IN  IF o # 0 /\ Get(sv, conns[o].source, 0) # output_val
        THEN [signal_values |-> Put(sv, conns[o].source, output_val),
              changed |-> TRUE]
        ELSE [signal_values |-> sv, changed |-> FALSE]

RecursionError == Error("RecursionError", "maximum recursion depth exceeded")

UnknownChip(chip_type) == Error("ValueError", "Unknown chip type: " \o chip_type)

\* indices of the connections that reach the elif branch of _simulate_custom
OutputConns(connections, chip_def) ==
    {i \in 1..Len(connections) :
        /\ connections[i].destination \notin SeqToSet(chip_def.inputs)
        /\ connections[i].destination \in SeqToSet(chip_def.outputs)}

\* the sub_inputs dictionary _simulate_custom builds
SubInputs(connections, chip_def, sv) ==
    [d \in {x \in SeqToSet(chip_def.inputs) : LastIndex(connections, x) # 0} |->
        Get(sv, connections[LastIndex(connections, d)].source, 0)]

\* for sub_output, parent_signal in output_mappings.items(): the keys come in
\* the order of their first insertion, each with the value assigned last
RECURSIVE MapOutputs(_, _, _, _, _, _)
MapOutputs(todo, connections, outs, sub_outputs, sv, changed) ==
    IF todo = {}
    THEN [signal_values |-> sv, changed |-> changed]
    ELSE LET i == CHOOSE x \in todo : \A y \in todo : x <= y
             sub_output == connections[i].destination
             l == CHOOSE x \in outs :
                    /\ connections[x].destination = sub_output
                    /\ \A y \in outs :
                         connections[y].destination = sub_output => y <= x
             parent_signal == connections[l].source
             new_val == Get(sub_outputs, sub_output, 0)
             old_val == Get(sv, parent_signal, 0)
         IN  IF old_val # new_val
             THEN MapOutputs(todo \ {i}, connections, outs, sub_outputs,
                             Put(sv, parent_signal, new_val), TRUE)
             ELSE MapOutputs(todo \ {i}, connections, outs, sub_outputs,
                             sv, changed)

\* _simulate_custom without the loop that writes the outputs back
WriteBack_Dropped(part, chip_def, sub_outputs, sv) ==
    [signal_values |-> sv, changed |-> FALSE]

\* the second half of _simulate_custom: write the sub-chip's outputs to the
\* signals of the enclosing chip
WriteBack(part, chip_def, sub_outputs, sv) ==
    LET conns == part.connections
        outs == OutputConns(conns, chip_def)
        firsts == {i \in outs : \A j \in outs :
                    j < i => conns[j].destination # conns[i].destination}
    IN  MapOutputs(firsts, conns, outs, sub_outputs, sv, FALSE)

\* simulate without the reset of self.signal_values
InitialSignals_NoReset(chip_def, inputs) ==
    LET dom == (DOMAIN signal_values) \cup (DOMAIN inputs)
                \cup chip_def.internal_pins \cup SeqToSet(chip_def.outputs)
    IN  [s \in dom |->
            IF s \in chip_def.internal_pins THEN 0
            ELSE IF s \in DOMAIN inputs THEN inputs[s]
            ELSE IF s \in DOMAIN signal_values THEN signal_values[s]
            ELSE 0]

\* the environment simulate builds before the loop
InitialSignals(chip_def, inputs) ==
    LET dom == (DOMAIN inputs) \cup chip_def.internal_pins
                \cup SeqToSet(chip_def.outputs)
    IN  [s \in dom |->
            IF s \in chip_def.internal_pins THEN 0
            ELSE IF s \in DOMAIN inputs THEN inputs[s]
            ELSE 0]

\* the outputs dictionary simulate returns after the loop
ExtractOutputs(chip_def, sv) ==
    [p \in SeqToSet(chip_def.outputs) |-> Get(sv, p, 0)]

\* the test at the top of simulate
IsBuiltinChip(chip_def) ==
    chip_def.name \in DOMAIN built_in_chips /\ chip_def.parts = <<>>

\* one activation of simulate that is inside its loop: the definition, the
\* loop counter, the index of the next part of the pass, the changed flag;
\* before is the environment of the caller at the moment of the call
\* (history, read by the properties only)
Frame(chip_def, before) ==
    [chip_def |-> chip_def, iteration |-> 0, i |-> 1, changed |-> FALSE,
     before |-> before]

----------------------------------------------------------------------------
(* test_runner.py *)

\* A line of a test-vector file, after strip(): blank, a // comment, a line
\* without ';' (plain), or a row "left;right" of comma-separated tokens
Line(kind, left, right) == [kind |-> kind, left |-> left, right |-> right]

Row(left, right) == Line("row", left, right)

Skipped(line) == line.kind \in {"blank", "comment"}

\* int(val.strip()): the tokens that are integers; anything else raises
IsInt(token) == token \in {"0", "1"}

IntOf(token) == IF token = "1" THEN 1 ELSE 0

\* [name.strip() for name in part.split(",") if name.strip()]
Names(tokens) == SelectSeq(tokens, LAMBDA t : t # "")

\* dict(zip(names, vals)): as long as the shorter list, a later pair wins
ZipDict(names, vals) ==
    LET n == IF Len(names) < Len(vals) THEN Len(names) ELSE Len(vals)
    IN  [k \in {names[i] : i \in 1..n} |->
            vals[CHOOSE i \in 1..n :
                    /\ names[i] = k
                    /\ \A j \in 1..n : names[j] = k => j <= i]]

TestCase(inputs, expected_outputs) ==
    [inputs |-> inputs, expected_outputs |-> expected_outputs]

\* the lines after the header, in order: one TestCase per row whose tokens
\* are all integers
RECURSIVE ReadCases(_, _, _, _)
ReadCases(lines, i, input_names, output_names) ==
    IF i > Len(lines)
    THEN <<>>
    ELSE LET line == lines[i]
             rest == ReadCases(lines, i + 1, input_names, output_names)
         IN  IF Skipped(line) \/ line.kind = "plain"
             THEN rest
             ELSE IF \E t \in SeqToSet(line.left) \cup SeqToSet(line.right) :
                        ~IsInt(t)
             THEN rest
             ELSE <<TestCase(
                        ZipDict(input_names,
                                [k \in 1..Len(line.left) |->
                                    IntOf(line.left[k])]),
                        ZipDict(output_names,
                                [k \in 1..Len(line.right) |->
                                    IntOf(line.right[k])]))>> \o rest

\* (variant: the first line of the file is the header, whatever it is)
_read_test_file_FirstLineHeader(lines) ==
    IF lines = <<>>
    THEN [test_cases |-> <<>>, error |-> NoError]
    ELSE IF lines[1].kind = "plain"
    THEN [test_cases |-> <<>>,
          error |-> Error("ValueError",
              "Invalid test file format - header must contain ';'")]
    ELSE [test_cases |-> ReadCases(lines, 2, Names(lines[1].left),
                                   Names(lines[1].right)),
          error |-> NoError]

\* returns the test cases and the error
_read_test_file(lines) ==
    LET heads == {i \in 1..Len(lines) : ~Skipped(lines[i])}
        header_index == CHOOSE i \in heads : \A j \in heads : i <= j
        header_line == lines[header_index]
    IN  IF lines = <<>>
        THEN [test_cases |-> <<>>, error |-> NoError]
        ELSE IF heads = {}
        THEN [test_cases |-> <<>>,
              error |-> Error("ValueError",
                              "No header line found in test file")]
        ELSE IF header_line.kind = "plain"
        THEN [test_cases |-> <<>>,
              error |-> Error("ValueError",
                  "Invalid test file format - header must contain ';'")]
        ELSE [test_cases |-> ReadCases(lines, header_index + 1,
                                       Names(header_line.left),
                                       Names(header_line.right)),
              error |-> NoError]

\* (variant: every returned pin is compared, an unexpected one against 0)
_check_outputs_AllPins(expected, actual) ==
    \A pin_name \in DOMAIN expected \cup DOMAIN actual :
        Get(actual, pin_name, 0) = Get(expected, pin_name, 0)

_check_outputs(expected, actual) ==
    \A pin_name \in DOMAIN expected :
        Get(actual, pin_name, 0) = expected[pin_name]

----------------------------------------------------------------------------
(* Source units.  A source text is modelled by the tokens the regular      *)
(* expressions of the parser extract from it: whether there is a           *)
(* CHIP <name> { ... } block, the pin lists after IN and OUT, and the part  *)
(* instantiations "type(dest=src, ...);" in the order they are written.    *)

Source(name, ins, outs, parts) ==
    [chip |-> TRUE, name |-> name, ins |-> ins, outs |-> outs,
     parts |-> parts]

Part(type, conns) == [type |-> type, conns |-> conns]

\* tests/test_integration.py: Xor.hdl
XorSrc ==
    Source("Xor", <<"a", "b">>, <<"out">>,
        <<Part("Not", <<<<"in", "a">>, <<"out", "nota">>>>),
          Part("Not", <<<<"in", "b">>, <<"out", "notb">>>>),
          Part("And", <<<<"a", "a">>, <<"b", "notb">>, <<"out", "aAndNotb">>>>),
          Part("And", <<<<"a", "nota">>, <<"b", "b">>, <<"out", "notaAndb">>>>),
          Part("Or", <<<<"a", "aAndNotb">>, <<"b", "notaAndb">>,
                       <<"out", "out">>>>)>>)

\* tests/test_integration.py: HalfAdder.hdl
HalfAdderSrc ==
    Source("HalfAdder", <<"a", "b">>, <<"sum", "carry">>,
        <<Part("Xor", <<<<"a", "a">>, <<"b", "b">>, <<"out", "sum">>>>),
          Part("And", <<<<"a", "a">>, <<"b", "b">>, <<"out", "carry">>>>)>>)

\* a text without a CHIP block
NoChipSrc == [chip |-> FALSE, name |-> "", ins |-> <<>>, outs |-> <<>>,
              parts |-> <<>>]

\* the half adder with its two parts written in the other order
SwappedSrc ==
    Source("HalfAdder", <<"a", "b">>, <<"sum", "carry">>,
        <<Part("And", <<<<"a", "a">>, <<"b", "b">>, <<"out", "carry">>>>),
          Part("Xor", <<<<"a", "a">>, <<"b", "b">>, <<"out", "sum">>>>)>>)

\* a chip with a composite part, an output no part drives and a primitive
\* part that drives an internal signal
SparseSrc ==
    Source("Sparse", <<"a", "b">>, <<"out", "sum">>,
        <<Part("Xor", <<<<"a", "a">>, <<"b", "b">>, <<"out", "sum">>>>),
          Part("Not", <<<<"in", "a">>, <<"out", "unused">>>>)>>)

\* chip types that instantiate each other
LoopSrc ==
    Source("Loop", <<"a">>, <<"out">>,
        <<Part("Loop", <<<<"a", "a">>, <<"out", "out">>>>)>>)

PingSrc ==
    Source("Ping", <<"a">>, <<"out">>,
        <<Part("Pong", <<<<"a", "a">>, <<"out", "out">>>>)>>)

PongSrc ==
    Source("Pong", <<"a">>, <<"out">>,
        <<Part("Ping", <<<<"a", "a">>, <<"out", "out">>>>)>>)

\* a file whose CHIP block bears another name than the file
\* (as BrokenAnd.hdl of tests/test_integration.py does)
AliasSrc ==
    Source("Xor", <<"a", "b">>, <<"out">>,
        <<Part("Or", <<<<"a", "a">>, <<"b", "b">>, <<"out", "out">>>>)>>)

UserSrc ==
    Source("User", <<"a", "b">>, <<"x", "y">>,
        <<Part("Xor", <<<<"a", "a">>, <<"b", "b">>, <<"out", "x">>>>),
          Part("Alias", <<<<"a", "a">>, <<"b", "b">>, <<"out", "y">>>>)>>)

\* built-in names in a file: Not.hdl of tests/test_integration.py, and a
\* part-less Not that declares other pins
NotSrc == Source("Not", <<"in">>, <<"out">>, <<>>)

RenamedNotSrc == Source("Not", <<"x">>, <<"y">>, <<>>)

\* parts of a type that cannot be resolved or cannot be parsed
OrphanSrc ==
    Source("Orphan", <<"a">>, <<"out">>,
        <<Part("Ghost", <<<<"in", "a">>, <<"out", "out">>>>)>>)

UsesBadSrc ==
    Source("UsesBad", <<"a">>, <<"out">>,
        <<Part("Not", <<<<"in", "a">>, <<"out", "w">>>>),
          Part("Bad", <<<<"in", "w">>, <<"out", "out">>>>)>>)

EmptyDir == [f \in {} |-> NoChipSrc]

\* the working directories a session may run in
Dirs ==
    { EmptyDir,
      [f \in {"Xor.hdl", "HalfAdder.hdl"} |->
            IF f = "Xor.hdl" THEN XorSrc ELSE HalfAdderSrc],
      [f \in {"Xor.hdl", "Swapped.hdl", "Sparse.hdl"} |->
            IF f = "Xor.hdl" THEN XorSrc
            ELSE IF f = "Swapped.hdl" THEN SwappedSrc ELSE SparseSrc],
      [f \in {"Loop.hdl", "Ping.hdl", "Pong.hdl"} |->
            IF f = "Loop.hdl" THEN LoopSrc
            ELSE IF f = "Ping.hdl" THEN PingSrc ELSE PongSrc],
      [f \in {"Xor.hdl", "Alias.hdl", "User.hdl"} |->
            IF f = "Xor.hdl" THEN XorSrc
            ELSE IF f = "Alias.hdl" THEN AliasSrc ELSE UserSrc],
      [f \in {"Not.hdl", "Inv.hdl"} |->
            IF f = "Not.hdl" THEN NotSrc ELSE RenamedNotSrc],
      [f \in {"Orphan.hdl", "UsesBad.hdl", "Bad.hdl"} |->
            IF f = "Orphan.hdl" THEN OrphanSrc
            ELSE IF f = "UsesBad.hdl" THEN UsesBadSrc ELSE NoChipSrc] }

----------------------------------------------------------------------------
(* Definitions a caller builds by hand, as tests/test_simulator.py does *)

Inst(chip_type, k, conns) ==
    ChipInstance(chip_type, chip_type \o "_" \o ToString(k),
                 _parse_connections(conns))

\* test_simulate_composite_chip
AndChip ==
    ChipDefinition("And", <<"a", "b">>, <<"out">>,
        <<Inst("Nand", 0, <<<<"a", "a">>, <<"b", "b">>, <<"out", "nandOut">>>>),
          Inst("Not", 0, <<<<"in", "nandOut">>, <<"out", "out">>>>)>>,
        {"nandOut"})

\* test_signal_propagation
BufferChip ==
    ChipDefinition("Buffer", <<"in">>, <<"out">>,
        <<Inst("Not", 0, <<<<"in", "in">>, <<"out", "temp">>>>),
          Inst("Not", 1, <<<<"in", "temp">>, <<"out", "out">>>>)>>,
        {"temp"})

\* test_multiple_outputs
MultiOutChip ==
    ChipDefinition("MultiOut", <<"a", "b">>, <<"and_out", "or_out">>,
        <<Inst("And", 0, <<<<"a", "a">>, <<"b", "b">>, <<"out", "and_out">>>>),
          Inst("Or", 0, <<<<"a", "a">>, <<"b", "b">>, <<"out", "or_out">>>>)>>,
        {})

\* test_default_values
DefaultChip ==
    ChipDefinition("Test", <<"a">>, <<"out">>,
        <<Inst("Not", 0, <<<<"in", "a">>, <<"out", "out">>>>)>>,
        {"unconnected"})

\* test_complex_circuit
XorChip == parse_hdl(XorSrc, EmptyDict).chip_def

\* an inverter with a second output that no part drives
SpareChip ==
    ChipDefinition("Spare", <<"in">>, <<"out", "temp">>,
        <<Inst("Not", 0, <<<<"in", "in">>, <<"out", "out">>>>)>>,
        {})

\* Or from De Morgan's law: three parts, the last reads what the others drive
OrChip ==
    ChipDefinition("Or", <<"a", "b">>, <<"out">>,
        <<Inst("Not", 0, <<<<"in", "a">>, <<"out", "na">>>>),
          Inst("Not", 1, <<<<"in", "b">>, <<"out", "nb">>>>),
          Inst("Nand", 2, <<<<"a", "na">>, <<"b", "nb">>, <<"out", "out">>>>)>>,
        {"na", "nb"})

\* tests/test_integration.py: HalfAdder.tst
HalfAdderTst ==
    <<Row(<<"a", "b">>, <<"sum", "carry">>),
      Row(<<"0", "0">>, <<"0", "0">>),
      Row(<<"0", "1">>, <<"1", "0">>),
      Row(<<"1", "0">>, <<"1", "0">>),
      Row(<<"1", "1">>, <<"0", "1">>)>>

\* tests/test_integration.py: Not.tst
NotTst ==
    <<Line("comment", <<>>, <<>>),
      Row(<<"in">>, <<"out">>),
      Line("comment", <<>>, <<>>),
      Row(<<"0">>, <<"1">>),
      Line("comment", <<>>, <<>>),
      Row(<<"1">>, <<"0">>),
      Line("blank", <<>>, <<>>),
      Line("comment", <<>>, <<>>)>>

\* vectors that expect only one of the two outputs of HalfAdder; the second
\* expects the wrong sum
SumTst ==
    <<Row(<<"a", "b">>, <<"sum">>),
      Row(<<"1", "1">>, <<"0">>),
      Row(<<"0", "1">>, <<"0">>)>>

\* the test-vector files of a session
test_files ==
    [f \in {"HalfAdder.tst", "Not.tst", "Sum.tst"} |->
        IF f = "HalfAdder.tst" THEN HalfAdderTst
        ELSE IF f = "Not.tst" THEN NotTst ELSE SumTst]

Perms(n) ==
    {p \in [1..n -> 1..n] : \A i, j \in 1..n : p[i] = p[j] => i = j}

\* the same chip with its parts declared in another order
Permuted(chip_def) ==
    {[chip_def EXCEPT !.parts = [k \in 1..Len(chip_def.parts) |->
                                    chip_def.parts[p[k]]]] :
        p \in Perms(Len(chip_def.parts))}

Reversed(chip_def) ==
    [chip_def EXCEPT !.parts = [k \in 1..Len(chip_def.parts) |->
                        chip_def.parts[Len(chip_def.parts) + 1 - k]]]

HandBuilt ==
    Permuted(AndChip) \cup Permuted(BufferChip) \cup Permuted(OrChip)
        \cup {MultiOutChip, DefaultChip, SpareChip, XorChip, Reversed(XorChip)}

\* the definitions a caller can pass to simulate: what the registry holds
\* and, in a session without source files, the hand-built ones
Definitions ==
    {chips_cache[n] : n \in DOMAIN chips_cache}
        \cup (IF DOMAIN files = {} THEN HandBuilt ELSE {})

\* the input dictionaries a caller passes: any part of the declared inputs
InputDicts(chip_def) ==
    UNION {[D -> Bits] : D \in SUBSET SeqToSet(chip_def.inputs)}

\* the file names a caller asks for
FileNames == DOMAIN files \cup {"Missing.hdl"}

TestFileNames == DOMAIN test_files \cup {"Missing.tst"}

----------------------------------------------------------------------------
(* The state machine *)

NoCall == [active |-> FALSE, chip_def |-> None, inputs |-> EmptyDict,
           cache0 |-> EmptyDict]

\* what the last API call returned or raised
Outcome(op, chip_def, inputs, cache0, outputs, error, passes, stable) ==
    [op |-> op, chip_def |-> chip_def, inputs |-> inputs, cache0 |-> cache0,
     outputs |-> outputs, error |-> error, passes |-> passes,
     stable |-> stable]

NoOutcome == Outcome("", None, EmptyDict, EmptyDict, None, NoError, 0, FALSE)

\* what the last evaluation of a composite part did to the environment of
\* the chip that contains the part (history, read by the properties only)
NoObs == [seen |-> FALSE, before |-> EmptyDict, sub |-> EmptyDict,
          after |-> EmptyDict, written |-> {}]

Observed(part, chip_def, before, sub, after) ==
    [seen |-> TRUE, before |-> before, sub |-> sub, after |-> after,
     written |-> {part.connections[i].source :
                    i \in OutputConns(part.connections, chip_def)}]

\* the outcome of the first call of simulate with the probed definition and
\* inputs, whether another call of simulate was made after it, and whether
\* the probed call was made again (history, read by the properties only)
Memo(probe) == [probe |-> probe, seen |-> FALSE, outcome |-> NoOutcome,
                others |-> FALSE, again |-> FALSE]

NoMemo == Memo(None)

\* run_tests between two vectors: the definition, the test cases, the index
\* of the current one, the count of passed ones, and whether simulate has
\* been called for the current one
Paths(chip_file, test_file) ==
    [chip_file |-> chip_file, test_file |-> test_file]

Idle == [active |-> FALSE, paths |-> Paths("", ""), chip_def |-> None,
         test_cases |-> <<>>, k |-> 0, passed |-> 0, called |-> FALSE,
         cache0 |-> EmptyDict]

\* a fresh parser and a fresh simulator in working directory dir
Fresh(dir) ==
    /\ files = dir
    /\ chips_cache = InitialCache
    /\ signal_values = EmptyDict
    /\ stack = <<>>
    /\ call = NoCall
    /\ last = NoOutcome
    /\ obs = NoObs
    /\ runner = Idle

Init ==
    /\ \E dir \in Dirs : Fresh(dir)
    /\ memo = NoMemo

Top == stack[Len(stack)]

CurrentPart == Top.chip_def.parts[Top.i]

\* the first outcome of the probed call is kept
Remember(outcome) ==
    IF memo.probe = None
    THEN UNCHANGED memo
    ELSE IF memo.probe # <<outcome.chip_def, outcome.inputs>>
    THEN memo' = [memo EXCEPT !.others = memo.seen]
    ELSE IF ~memo.seen
    THEN memo' = [memo EXCEPT !.seen = TRUE, !.outcome = outcome]
    ELSE memo' = [memo EXCEPT !.again = TRUE]

\* (variant: _simulate_custom gives the part up and the loop goes on)
Raise_SkipsPart(error) ==
    /\ stack' = [stack EXCEPT ![Len(stack)] = [@ EXCEPT !.i = @ + 1]]
    /\ UNCHANGED <<call, last, memo>>

\* an exception leaves every activation; the caller of the API sees it
Raise(error) ==
    /\ stack' = <<>>
    /\ last' = Outcome("simulate", call.chip_def, call.inputs, call.cache0,
                       None, error, 0, FALSE)
    /\ Remember(last')
    /\ call' = NoCall

\* the entry of simulate(chip_def, inputs), up to the loop
Enter(chip_def, inputs) ==
    /\ stack = <<>>
    /\ IF IsBuiltinChip(chip_def)
       THEN /\ last' = Outcome("simulate", chip_def, inputs, chips_cache,
                               _simulate_builtin_chip(chip_def, inputs),
                               NoError, 0, TRUE)
            /\ Remember(last')
            /\ UNCHANGED <<signal_values, stack, call>>
       ELSE /\ signal_values' = InitialSignals(chip_def, inputs)
            /\ stack' = <<Frame(chip_def, EmptyDict)>>
            /\ call' = [active |-> TRUE, chip_def |-> chip_def,
                        inputs |-> inputs, cache0 |-> chips_cache]
            /\ last' = NoOutcome
            /\ UNCHANGED memo
    /\ obs' = NoObs
    /\ UNCHANGED <<files, chips_cache>>

\* simulate(chip_def, inputs) called on the API
Simulate(chip_def, inputs) ==
    /\ ~runner.active
    /\ Enter(chip_def, inputs)
    /\ UNCHANGED runner

\* _simulate_part on a part of a built-in type
SimulateBuiltinPart ==
    /\ stack # <<>>
    /\ Top.i <= Len(Top.chip_def.parts)
    /\ CurrentPart.chip_type \in DOMAIN built_in_chips
    /\ LET r == _simulate_builtin_part(CurrentPart, signal_values)
       IN  /\ signal_values' = r.signal_values
           /\ stack' = [stack EXCEPT ![Len(stack)] =
                            [@ EXCEPT !.i = @ + 1,
                                      !.changed = @ \/ r.changed]]
    /\ UNCHANGED <<files, chips_cache, call, last, obs, memo, runner>>

\* _simulate_part on a part of another type: _simulate_custom up to and
\* including the entry into the nested simulate
SimulateCustom ==
    /\ stack # <<>>
    /\ Top.i <= Len(Top.chip_def.parts)
    /\ CurrentPart.chip_type \notin DOMAIN built_in_chips
    /\ LET part == CurrentPart
           g == get_chip_definition(part.chip_type, chips_cache)
           chip_def == g.chip_def
           sub_inputs == SubInputs(part.connections, chip_def, signal_values)
       IN  /\ chips_cache' = g.chips_cache
           /\ IF g.error # NoError
              THEN Raise(g.error) /\ UNCHANGED <<signal_values, obs>>
              ELSE IF chip_def = None
              THEN Raise(UnknownChip(part.chip_type))
                   /\ UNCHANGED <<signal_values, obs>>
              ELSE IF IsBuiltinChip(chip_def)
              THEN LET m == WriteBack(part, chip_def,
                                _simulate_builtin_chip(chip_def, sub_inputs),
                                signal_values)
                   IN  /\ signal_values' = m.signal_values
                       /\ stack' = [stack EXCEPT ![Len(stack)] =
                                        [@ EXCEPT !.i = @ + 1,
                                                  !.changed = @ \/ m.changed]]
                       /\ obs' = Observed(part, chip_def, signal_values,
                                          signal_values, m.signal_values)
                       /\ UNCHANGED <<call, last, memo>>
              ELSE IF Len(stack) + 1 > RecursionLimit
              THEN Raise(RecursionError) /\ UNCHANGED <<signal_values, obs>>
              ELSE /\ signal_values' = InitialSignals(chip_def, sub_inputs)
                   /\ stack' = Append(stack, Frame(chip_def, signal_values))
                   /\ UNCHANGED <<call, last, obs, memo>>
    /\ UNCHANGED <<files, runner>>

\* the end of a pass that changed a signal, below the cap: the next pass
NextPass ==
    /\ stack # <<>>
    /\ Top.i > Len(Top.chip_def.parts)
    /\ Top.changed
    /\ Top.iteration + 1 < max_iterations
    /\ stack' = [stack EXCEPT ![Len(stack)] =
                    [@ EXCEPT !.iteration = @ + 1, !.i = 1,
                              !.changed = FALSE]]
    /\ UNCHANGED <<files, chips_cache, signal_values, call, last, obs, memo,
                   runner>>

\* the end of the loop (a pass without change, or the cap): simulate returns
\* its outputs, to the API or to the _simulate_custom that called it, which
\* writes them to the signals of its chip
Return ==
    /\ stack # <<>>
    /\ Top.i > Len(Top.chip_def.parts)
    /\ ~(Top.changed /\ Top.iteration + 1 < max_iterations)
    /\ LET outputs == ExtractOutputs(Top.chip_def, signal_values)
       IN  IF Len(stack) = 1
           THEN /\ stack' = <<>>
                /\ last' = Outcome("simulate", call.chip_def, call.inputs,
                                   call.cache0, outputs, NoError,
                                   Top.iteration + 1, ~Top.changed)
                /\ Remember(last')
                /\ call' = NoCall
                /\ UNCHANGED <<signal_values, obs>>
           ELSE LET caller == stack[Len(stack) - 1]
                    part == caller.chip_def.parts[caller.i]
                    m == WriteBack(part, Top.chip_def, outputs, signal_values)
                IN  /\ signal_values' = m.signal_values
                    /\ stack' = [SubSeq(stack, 1, Len(stack) - 1)
                                    EXCEPT ![Len(stack) - 1] =
                                        [@ EXCEPT !.i = @ + 1,
                                                  !.changed = @ \/ m.changed]]
                    /\ obs' = Observed(part, Top.chip_def, Top.before,
                                       signal_values, m.signal_values)
                    /\ UNCHANGED <<call, last, memo>>
    /\ UNCHANGED <<files, chips_cache, runner>>

\* parse_file(filename) called on the API
ParseFile(filename) ==
    /\ stack = <<>>
    /\ ~runner.active
    /\ LET r == parse_file(filename, chips_cache)
       IN  /\ chips_cache' = r.chips_cache
           /\ last' = Outcome("parse_file", r.chip_def, EmptyDict,
                              chips_cache, None, r.error, 0, FALSE)
    /\ UNCHANGED <<files, signal_values, stack, call, obs, memo, runner>>

\* what run_tests returns or raises
Finished(paths, chip_def, cache0, passed, total, error) ==
    Outcome("run_tests", chip_def, paths, cache0,
            [passed |-> passed, total |-> total], error, 0, FALSE)

\* run_tests(chip_file, test_file) called on the API, up to the loop over
\* the test cases
RunTests(chip_file, test_file) ==
    /\ stack = <<>>
    /\ ~runner.active
    /\ LET p == parse_file(chip_file, chips_cache)
           t == IF test_file \in DOMAIN test_files
                THEN _read_test_file(test_files[test_file])
                ELSE [test_cases |-> <<>>,
                      error |-> Error("FileNotFoundError",
                                      "Test file not found: " \o test_file)]
       IN  /\ chips_cache' = p.chips_cache
           /\ IF p.error # NoError
              THEN /\ last' = Finished(Paths(chip_file, test_file), None,
                                         chips_cache, 0, 0, p.error)
                   /\ UNCHANGED runner
              ELSE IF t.error # NoError
              THEN /\ last' = Finished(Paths(chip_file, test_file), p.chip_def,
                                         chips_cache, 0, 0, t.error)
                   /\ UNCHANGED runner
              ELSE IF t.test_cases = <<>>
              THEN /\ last' = Finished(Paths(chip_file, test_file), p.chip_def,
                                         chips_cache, 0, 0, NoError)
                   /\ UNCHANGED runner
              ELSE /\ last' = NoOutcome
                   /\ runner' = [active |-> TRUE,
                                 paths |-> Paths(chip_file, test_file),
                                 chip_def |-> p.chip_def,
                                 test_cases |-> t.test_cases, k |-> 1,
                                 passed |-> 0, called |-> FALSE,
                                 cache0 |-> chips_cache]
    /\ UNCHANGED <<files, signal_values, stack, call, obs, memo>>

\* the loop of run_tests calls simulate for the current test case
RunTestsSimulate ==
    /\ runner.active
    /\ ~runner.called
    /\ Enter(runner.chip_def, runner.test_cases[runner.k].inputs)
    /\ runner' = [runner EXCEPT !.called = TRUE]

\* simulate is back: run_tests checks the outputs, counts, and goes to the
\* next test case or returns (passed, total); an exception of simulate
\* leaves run_tests
RunTestsCheck ==
    /\ runner.active
    /\ runner.called
    /\ stack = <<>>
    /\ LET total == Len(runner.test_cases)
           passed == IF _check_outputs(
                            runner.test_cases[runner.k].expected_outputs,
                            last.outputs)
                     THEN runner.passed + 1 ELSE runner.passed
       IN  IF last.error # NoError
           THEN /\ last' = Finished(runner.paths, runner.chip_def,
                                    runner.cache0, runner.passed, total,
                                    last.error)
                /\ runner' = Idle
           ELSE IF runner.k = total
           THEN /\ last' = Finished(runner.paths, runner.chip_def,
                                    runner.cache0, passed, total, NoError)
                /\ runner' = Idle
           ELSE /\ last' = NoOutcome
                /\ runner' = [runner EXCEPT !.k = @ + 1, !.passed = passed,
                                            !.called = FALSE]
    /\ UNCHANGED <<files, chips_cache, signal_values, stack, call, obs, memo>>

Next ==
    \/ \E chip_def \in Definitions :
            \E inputs \in InputDicts(chip_def) : Simulate(chip_def, inputs)
    \/ SimulateBuiltinPart
    \/ SimulateCustom
    \/ NextPass
    \/ Return
    \/ \E filename \in FileNames : ParseFile(filename)
    \/ \E chip_file \in FileNames :
            \E test_file \in TestFileNames : RunTests(chip_file, test_file)
    \/ RunTestsSimulate
    \/ RunTestsCheck

Spec == Init /\ [][Next]_vars

\* Sessions of simulate and parse_file calls in which the outcome of one
\* call of simulate, chosen beforehand, is kept for comparison
AliasDir == CHOOSE dir \in Dirs : "Alias.hdl" \in DOMAIN dir

UserChip == parse_hdl(UserSrc, EmptyDict).chip_def

DetSessions ==
    {<<EmptyDir, <<built_in_chips["Nand"], [a |-> 1, b |-> 1]>>>>,
     <<EmptyDir, <<SpareChip, [in |-> 1]>>>>,
     <<EmptyDir, <<BufferChip, [in |-> 0]>>>>,
     <<EmptyDir, <<XorChip, [a |-> 1, b |-> 0]>>>>,
     <<AliasDir, <<UserChip, [a |-> 1, b |-> 0]>>>>}

InitDet ==
    \E session \in DetSessions :
        /\ Fresh(session[1])
        /\ memo = Memo(session[2])

\* the definitions passed to simulate in these sessions
DetDefinitions ==
    {chips_cache[n] : n \in DOMAIN chips_cache}
        \cup (IF DOMAIN files = {}
              THEN {SpareChip, BufferChip, XorChip} ELSE {})

NextDet ==
    \/ \E chip_def \in DetDefinitions :
            \E inputs \in InputDicts(chip_def) : Simulate(chip_def, inputs)
    \/ SimulateBuiltinPart
    \/ SimulateCustom
    \/ NextPass
    \/ Return
    \/ \E filename \in FileNames : ParseFile(filename)

SpecDet == InitDet /\ [][NextDet]_vars

----------------------------------------------------------------------------
(* Sessions of parse, resolve and simulate calls in a working directory    *)
(* that gains source units while the session runs                          *)

\* a type that Orphan.hdl refers to, and a second text for the same name
GhostSrc ==
    Source("Ghost", <<"in">>, <<"out">>,
        <<Part("Not", <<<<"in", "in">>, <<"out", "out">>>>)>>)

GhostBufSrc ==
    Source("Ghost", <<"in">>, <<"out">>,
        <<Part("Not", <<<<"in", "in">>, <<"out", "t">>>>),
          Part("Not", <<<<"in", "t">>, <<"out", "out">>>>)>>)

\* an inverter that drives its own input
OscSrc ==
    Source("Osc", <<"a">>, <<"out">>,
        <<Part("Not", <<<<"in", "out">>, <<"out", "out">>>>)>>)

\* connections to pins the part types do not declare: c on And, nopin on
\* Ghost
MisWiredSrc ==
    Source("MisWired", <<"a", "b">>, <<"out", "out2">>,
        <<Part("And", <<<<"a", "a">>, <<"b", "b">>, <<"c", "b">>,
                        <<"out", "out">>>>),
          Part("Ghost", <<<<"in", "a">>, <<"nopin", "b">>,
                          <<"out", "out2">>>>)>>)

\* a chip two levels above the failure: its part Orphan has a part of the
\* type Ghost, which no source unit defines at first, and its part Bad is
\* defined by a source unit without a CHIP declaration
NestSrc ==
    Source("Nest", <<"a">>, <<"x", "y">>,
        <<Part("Orphan", <<<<"a", "a">>, <<"out", "x">>>>),
          Part("Bad", <<<<"in", "a">>, <<"out", "y">>>>)>>)

ParseDirs ==
    { [f \in {"Orphan.hdl"} |-> OrphanSrc],
      [f \in {"Osc.hdl"} |-> OscSrc],
      [f \in {"Alias.hdl"} |-> AliasSrc],
      [f \in {"MisWired.hdl", "Ghost.hdl"} |->
            IF f = "MisWired.hdl" THEN MisWiredSrc ELSE GhostSrc] }

\* the texts a caller passes to parse_hdl
Texts == {GhostSrc, GhostBufSrc, NoChipSrc}

\* the names a caller passes to get_chip_definition
ChipNames == {"Nand", "Ghost", "Alias", "Xor", "Orphan", "Missing"}

\* the source units that appear in the directory during a session
NewFiles == [f \in {"Ghost.hdl"} |-> GhostSrc]

\* parse_hdl(content) called on the API
ParseHdl(content) ==
    /\ stack = <<>>
    /\ ~runner.active
    /\ LET r == parse_hdl(content, chips_cache)
       IN  /\ chips_cache' = r.chips_cache
           /\ last' = Outcome("parse_hdl", r.chip_def,
                              [content |-> content], chips_cache, None,
                              r.error, 0, FALSE)
    /\ UNCHANGED <<files, signal_values, stack, call, obs, memo, runner>>

\* get_chip_definition(chip_name) called on the API
GetChipDefinition(chip_name) ==
    /\ stack = <<>>
    /\ ~runner.active
    /\ LET r == get_chip_definition(chip_name, chips_cache)
       IN  /\ chips_cache' = r.chips_cache
           /\ last' = Outcome("get_chip_definition", r.chip_def,
                              [chip_name |-> chip_name], chips_cache, None,
                              r.error, 0, FALSE)
    /\ UNCHANGED <<files, signal_values, stack, call, obs, memo, runner>>

\* between two calls, a source unit is put into the directory that
\* Path(filename).exists() and open(path) of parse_file look at
WriteFile(filename) ==
    /\ stack = <<>>
    /\ ~runner.active
    /\ filename \notin DOMAIN files
    /\ files' = Put(files, filename, NewFiles[filename])
    /\ UNCHANGED <<chips_cache, signal_values, stack, call, last, obs, memo,
                   runner>>

\* Orphan.hdl parsed: its only part is of type Ghost
OrphanChip == parse_hdl(OrphanSrc, EmptyDict).chip_def

\* the call whose first outcome is kept in these sessions
ParseProbe == <<OrphanChip, [a |-> 0]>>

InitParse ==
    /\ \E dir \in ParseDirs : Fresh(dir)
    /\ memo = Memo(ParseProbe)

NextParse ==
    \/ \E chip_def \in Definitions :
            \E inputs \in InputDicts(chip_def) : Simulate(chip_def, inputs)
    \/ SimulateBuiltinPart
    \/ SimulateCustom
    \/ NextPass
    \/ Return
    \/ \E filename \in FileNames : ParseFile(filename)
    \/ \E content \in Texts : ParseHdl(content)
    \/ \E chip_name \in ChipNames : GetChipDefinition(chip_name)
    \/ \E filename \in DOMAIN NewFiles : WriteFile(filename)

SpecParse == InitParse /\ [][NextParse]_vars

----------------------------------------------------------------------------
(* Sessions of simulate calls with input dictionaries that leave declared  *)
(* inputs out; the first outcome of the call with every input given is     *)
(* kept for comparison                                                     *)

\* a Nand whose pin b has no connection and a Not whose pin in has none
FloatChip ==
    ChipDefinition("Float", <<"a">>, <<"x", "y">>,
        <<Inst("Nand", 0, <<<<"a", "a">>, <<"out", "x">>>>),
          Inst("Not", 1, <<<<"out", "y">>>>)>>,
        {})

HalfAdderDir == CHOOSE dir \in Dirs : "HalfAdder.hdl" \in DOMAIN dir

InvDir == CHOOSE dir \in Dirs : "Inv.hdl" \in DOMAIN dir

DefaultSessions ==
    {<<EmptyDir, <<built_in_chips["Nand"], [a |-> 0, b |-> 1]>>>>,
     <<EmptyDir, <<built_in_chips["Or"], [a |-> 0, b |-> 0]>>>>,
     <<EmptyDir, <<XorChip, [a |-> 0, b |-> 1]>>>>,
     <<EmptyDir, <<FloatChip, [a |-> 0]>>>>,
     <<HalfAdderDir,
       <<parse_hdl(HalfAdderSrc, EmptyDict).chip_def, [a |-> 0, b |-> 1]>>>>,
     <<InvDir, <<parse_hdl(RenamedNotSrc, EmptyDict).chip_def, [x |-> 0]>>>>}

InitDefault ==
    \E session \in DefaultSessions :
        /\ Fresh(session[1])
        /\ memo = Memo(session[2])

\* the definitions passed to simulate in these sessions
DefaultDefinitions ==
    {chips_cache[n] : n \in DOMAIN chips_cache}
        \cup (IF DOMAIN files = {} THEN {XorChip, FloatChip} ELSE {})

NextDefault ==
    \/ \E chip_def \in DefaultDefinitions :
            \E inputs \in InputDicts(chip_def) : Simulate(chip_def, inputs)
    \/ SimulateBuiltinPart
    \/ SimulateCustom
    \/ NextPass
    \/ Return
    \/ \E filename \in FileNames : ParseFile(filename)

SpecDefault == InitDefault /\ [][NextDefault]_vars

----------------------------------------------------------------------------
(* The boolean function a circuit denotes (the reference the results of    *)
(* simulate are compared with; it does not look at the order of the parts) *)

\* section 4.2 of the specification: the truth tables of the primitives
Gate(chip_type, a, b) ==
    IF chip_type = "Nand" THEN 1 - a * b
    ELSE IF chip_type = "And" THEN a * b
    ELSE IF chip_type = "Or" THEN a + b - a * b
    ELSE 1 - a

\* the definition a part type stands for: a built-in name is the primitive,
\* any other name is resolved through the registry and the source files
TypeDef(chip_type, cache) ==
    IF chip_type \in DOMAIN built_in_chips
    THEN built_in_chips[chip_type]
    ELSE get_chip_definition(chip_type, cache).chip_def

\* the connections of a part that write a signal of the enclosing chip
OutConns(part, cache) ==
    {i \in 1..Len(part.connections) :
        /\ part.connections[i].destination
                \in SeqToSet(TypeDef(part.chip_type, cache).outputs)
        /\ part.connections[i].destination
                \notin SeqToSet(TypeDef(part.chip_type, cache).inputs)}

InConns(part, cache) ==
    {i \in 1..Len(part.connections) :
        part.connections[i].destination
            \in SeqToSet(TypeDef(part.chip_type, cache).inputs)}

\* the parts that drive signal s
DrivenBy(chip_def, cache, s) ==
    {k \in 1..Len(chip_def.parts) :
        \E i \in OutConns(chip_def.parts[k], cache) :
            chip_def.parts[k].connections[i].source = s}

\* the signals no part of the chip drives
Undriven(chip_def, cache) ==
    {s \in SeqToSet(chip_def.outputs) \cup chip_def.internal_pins :
        DrivenBy(chip_def, cache, s) = {}}

SignalsOf(chip_def) ==
    SeqToSet(chip_def.inputs) \cup SeqToSet(chip_def.outputs)
        \cup UNION {{c.source : c \in SeqToSet(chip_def.parts[k].connections)} :
                        k \in 1..Len(chip_def.parts)}

\* the signals the drivers of s read
Feeds(chip_def, cache, s) ==
    UNION {{chip_def.parts[k].connections[i].source :
                i \in InConns(chip_def.parts[k], cache)} :
            k \in DrivenBy(chip_def, cache, s)}

RECURSIVE Upstream(_, _, _)
Upstream(chip_def, cache, S) ==
    LET T == S \cup UNION {Feeds(chip_def, cache, s) : s \in S}
    IN  IF T = S THEN S ELSE Upstream(chip_def, cache, T)

\* an acyclic combinational chip: every part type resolves to a definition
\* of that name, every connection names a pin of the part's type, no pin is
\* connected twice, every signal is driven by at most one part and no
\* declared input is driven, no signal feeds itself, and the same holds of
\* the composite parts, none of which contains the chip itself
RECURSIVE WellFormed(_, _, _)
WellFormed(chip_def, cache, enclosing) ==
    /\ chip_def.name \notin enclosing
    /\ \A k \in 1..Len(chip_def.parts) :
        LET part == chip_def.parts[k]
            t == TypeDef(part.chip_type, cache)
        IN  /\ get_chip_definition(part.chip_type, cache).error = NoError
            /\ t # None
            /\ t.name = part.chip_type
            /\ \A i \in 1..Len(part.connections) :
                part.connections[i].destination
                    \in SeqToSet(t.inputs) \cup SeqToSet(t.outputs)
            /\ \A i, j \in 1..Len(part.connections) :
                part.connections[i].destination
                    = part.connections[j].destination => i = j
            /\ OutConns(part, cache) # {}
            /\ part.chip_type \notin DOMAIN built_in_chips =>
                /\ t.parts # <<>>
                /\ WellFormed(t, cache, enclosing \cup {chip_def.name})
    /\ \A s \in SignalsOf(chip_def) :
        /\ Cardinality(DrivenBy(chip_def, cache, s)) <= 1
        /\ s \in SeqToSet(chip_def.inputs) => DrivenBy(chip_def, cache, s) = {}
        /\ s \notin Upstream(chip_def, cache, Feeds(chip_def, cache, s))
    /\ SeqToSet(chip_def.inputs) \cap SeqToSet(chip_def.outputs) = {}
    /\ chip_def.internal_pins \cap SeqToSet(chip_def.inputs) = {}

AllPrimitive(chip_def) ==
    \A k \in 1..Len(chip_def.parts) :
        chip_def.parts[k].chip_type \in DOMAIN built_in_chips

\* the value of signal s of a well-formed chip under the inputs
RECURSIVE Val(_, _, _, _)
Val(chip_def, cache, inputs, s) ==
    IF s \in SeqToSet(chip_def.inputs)
    THEN Get(inputs, s, 0)
    ELSE IF DrivenBy(chip_def, cache, s) = {}
    THEN 0
    ELSE LET part == chip_def.parts[CHOOSE k \in DrivenBy(chip_def, cache, s) :
                                        TRUE]
             t == TypeDef(part.chip_type, cache)
             pin == part.connections[
                        CHOOSE i \in OutConns(part, cache) :
                            part.connections[i].source = s].destination
             ins == [d \in {part.connections[i].destination :
                                i \in InConns(part, cache)} |->
                        Val(chip_def, cache, inputs,
                            part.connections[LastIndex(part.connections,
                                                       d)].source)]
         IN  IF part.chip_type \in DOMAIN built_in_chips
             THEN Gate(part.chip_type,
                       Get(ins, IF part.chip_type = "Not" THEN "in" ELSE "a", 0),
                       Get(ins, "b", 0))
             ELSE Val(t, cache, ins, pin)

Denote(chip_def, cache, inputs) ==
    [p \in SeqToSet(chip_def.outputs) |-> Val(chip_def, cache, inputs, p)]

\* a call of simulate on the API has returned or raised
Returned == stack = <<>> /\ last.op = "simulate"

Succeeded == Returned /\ last.error = NoError

FullInputs(chip_def, inputs) == DOMAIN inputs = SeqToSet(chip_def.inputs)

----------------------------------------------------------------------------
(* Properties *)

\* C1: when the evaluation of a composite part is over, every signal the
\* enclosing chip had before the nested simulate call reads as it did
\* before, except the signals connected to the declared outputs of the
\* sub-chip.
C1_SubCallKeepsParentSignals ==
    obs.seen =>
        \A s \in DOMAIN obs.before :
            s \notin obs.written => Get(obs.after, s, 0) = obs.before[s]

\* C2: for an acyclic combinational chip, whatever the declaration order of
\* its parts, simulate returns the outputs of the boolean function the
\* circuit denotes.
C2_AcyclicChipDenotation ==
    (/\ Returned
     /\ last.chip_def.parts # <<>>
     /\ WellFormed(last.chip_def, last.cache0, {}))
        => /\ last.error = NoError
           /\ last.outputs = Denote(last.chip_def, last.cache0, last.inputs)

\* the half adder of tests/test_integration.py, parsed, with its Xor part
\* resolving to the Xor of Xor.hdl
HalfAdderChip == parse_hdl(HalfAdderSrc, EmptyDict).chip_def

IsHalfAdderCall ==
    /\ last.chip_def = HalfAdderChip
    /\ get_chip_definition("Xor", last.cache0).chip_def = XorChip

HalfAdderTable(a, b) ==
    [p \in {"sum", "carry"} |->
        IF p = "sum" THEN (IF a # b THEN 1 ELSE 0)
        ELSE (IF a = 1 /\ b = 1 THEN 1 ELSE 0)]

C4_PrimitiveComposition ==
    (Returned /\ FullInputs(last.chip_def, last.inputs)) =>
        /\ (/\ last.chip_def.parts # <<>>
            /\ AllPrimitive(last.chip_def)
            /\ WellFormed(last.chip_def, last.cache0, {}))
            => /\ last.error = NoError
               /\ last.outputs
                    = Denote(last.chip_def, last.cache0, last.inputs)
        /\ last.chip_def = AndChip
            => last.outputs = [p \in {"out"} |->
                                IF last.inputs.a = 1 /\ last.inputs.b = 1
                                THEN 1 ELSE 0]
        /\ last.chip_def = XorChip
            => last.outputs = [p \in {"out"} |->
                                IF last.inputs.a # last.inputs.b
                                THEN 1 ELSE 0]

C4_Witness ==
    /\ Succeeded
    /\ last.chip_def = XorChip
    /\ last.inputs = [a |-> 1, b |-> 0]
    /\ last.outputs = [out |-> 1]

\* C5: simulate on each of the four built-in definitions returns exactly
\* {out: v}: Nand is 0 iff a and b are 1, And is 1 iff both are 1, Or is 1
\* iff at least one is 1, Not is 1 iff in is 0.
C5_BuiltinTruthTables ==
    \A n \in DOMAIN built_in_chips :
        (/\ Returned
         /\ last.chip_def = built_in_chips[n]
         /\ FullInputs(last.chip_def, last.inputs))
            => /\ last.error = NoError
               /\ DOMAIN last.outputs = {"out"}
               /\ n = "Nand" => (last.outputs.out = 0
                                    <=> (last.inputs.a = 1 /\ last.inputs.b = 1))
               /\ n = "And" => (last.outputs.out = 1
                                    <=> (last.inputs.a = 1 /\ last.inputs.b = 1))
               /\ n = "Or" => (last.outputs.out = 1
                                    <=> (last.inputs.a = 1 \/ last.inputs.b = 1))
               /\ n = "Not" => (last.outputs.out = 1 <=> last.inputs["in"] = 0)
               /\ last.outputs.out \in {0, 1}

C5_Witness ==
    /\ Succeeded
    /\ last.chip_def = built_in_chips["Or"]
    /\ last.inputs = [a |-> 0, b |-> 1]
    /\ last.outputs = [out |-> 1]

\* C6: the mapping simulate returns has exactly the declared output pins of
\* the definition as its keys, each bound to 0 or 1.
C6_OutputsAreDeclaredPins ==
    Succeeded =>
        /\ DOMAIN last.outputs = SeqToSet(last.chip_def.outputs)
        /\ \A p \in DOMAIN last.outputs : last.outputs[p] \in {0, 1}

\* C7: a cyclic chip-type dependency is detected: simulate does not enter
\* a chip type that is already being simulated further up the call chain.
C7_CycleDetected ==
    \A i, j \in 1..Len(stack) :
        stack[i].chip_def.name = stack[j].chip_def.name => i = j

\* C8: an output or internal signal of the simulated chip that no part of
\* the chip drives is 0 in the result and in the environment simulate
\* leaves behind.
C8_UndrivenSignalsAreZero ==
    (/\ Succeeded
     /\ ~IsBuiltinChip(last.chip_def)
     /\ \A k \in 1..Len(last.chip_def.parts) :
            TypeDef(last.chip_def.parts[k].chip_type, last.cache0) # None)
        => \A s \in Undriven(last.chip_def, last.cache0) :
            /\ s \in SeqToSet(last.chip_def.outputs) => last.outputs[s] = 0
            /\ s \in DOMAIN signal_values
            /\ signal_values[s] = 0

\* C9: with the registry and the source files as they were at the first
\* call, a later call of simulate with the same definition and the same
\* inputs has the same outcome, whatever calls were made in between.
C9_Deterministic ==
    (/\ Returned
     /\ memo.seen
     /\ memo.probe = <<last.chip_def, last.inputs>>
     /\ memo.outcome.cache0 = last.cache0)
        => /\ last.outputs = memo.outcome.outputs
           /\ last.error = memo.outcome.error

C9_Witness ==
    /\ Returned
    /\ memo.seen /\ memo.others /\ memo.again
    /\ memo.probe = <<last.chip_def, last.inputs>>
    /\ memo.outcome.cache0 = last.cache0
    /\ last.outputs = memo.outcome.outputs

\* C10: a step of simulate changes neither the definition it was given nor
\* the definition bound to a name that is already in the registry.
C10_SimulateKeepsRegistry ==
    [][(stack # <<>> \/ stack' # <<>>) =>
        /\ \A n \in DOMAIN chips_cache :
                n \in DOMAIN chips_cache' /\ chips_cache'[n] = chips_cache[n]
        /\ (stack # <<>> /\ stack' # <<>>) =>
                stack'[1].chip_def = stack[1].chip_def]_vars

\* C11: after get_chip_definition has loaded a definition from a source
\* unit, the registry holds that definition under the requested name, so
\* that the next call with the same name is a registry hit.
C11_ResolveCachesUnderRequestedName ==
    (/\ last.op = "get_chip_definition"
     /\ last.error = NoError
     /\ last.chip_def # None)
        => /\ last.inputs.chip_name \in DOMAIN chips_cache
           /\ chips_cache[last.inputs.chip_name] = last.chip_def

\* a part type that is no built-in name, is not in the registry and has no
\* source unit of its name in the directory
Unresolvable(chip_type) ==
    /\ chip_type \notin DOMAIN built_in_chips
    /\ chip_type \notin DOMAIN chips_cache
    /\ (chip_type \o ".hdl") \notin DOMAIN files

\* C12: when simulate comes to a part whose type is unresolvable, the call
\* ends with the unknown-chip error that names this type and returns no
\* outputs.
C12_UnknownChipRaises ==
    [][(/\ stack # <<>>
        /\ Top.i <= Len(Top.chip_def.parts)
        /\ Unresolvable(CurrentPart.chip_type))
        => /\ stack' = <<>>
           /\ last'.op = "simulate"
           /\ last'.error = UnknownChip(CurrentPart.chip_type)
           /\ last'.error.msg = "Unknown chip type: " \o CurrentPart.chip_type
           /\ last'.outputs = None]_vars

C12_Witness ==
    /\ Returned
    /\ \E k \in 1..Len(last.chip_def.parts) :
            last.error.msg = "Unknown chip type: "
                                \o last.chip_def.parts[k].chip_type
    /\ last.outputs = None

\* the pins a definition declares
DeclaredPins(chip_def) ==
    SeqToSet(chip_def.inputs) \cup SeqToSet(chip_def.outputs)

\* the connections of chip_def whose destination is no pin of the part type
IllegalDestinations(chip_def, cache) ==
    {c \in UNION {{<<k, i>> : i \in 1..Len(chip_def.parts[k].connections)} :
                    k \in 1..Len(chip_def.parts)} :
        LET part == chip_def.parts[c[1]]
            d == TypeDef(part.chip_type, cache)
        IN  /\ d # None
            /\ part.connections[c[2]].destination \notin DeclaredPins(d)}

\* C13: parse accepts a connection to a pin the part type does not declare,
\* and simulate of the enclosing chip ends with an error for it.
C13_IllegalDestinationReported ==
    /\ (/\ last.op \in {"parse_file", "parse_hdl"}
        /\ last.chip_def # None
        /\ IllegalDestinations(last.chip_def, chips_cache) # {})
            => last.error = NoError
    /\ (/\ Returned
        /\ ~IsBuiltinChip(last.chip_def)
        /\ IllegalDestinations(last.chip_def, chips_cache) # {})
            => last.error # NoError

\* C14: parsing a chip that refers to an unknown type succeeds and
\* registers the chip; a simulate of it that ends while the type can be
\* resolved (registry or source unit) succeeds with the outputs the
\* resolved definition gives, and a simulate of it fails only while the
\* type cannot be resolved.
C14_ForwardReferences ==
    /\ [](\A k \in 1..Len(OrphanChip.parts) :
            (/\ last.op \in {"parse_file", "parse_hdl"}
             /\ last.chip_def = OrphanChip
             /\ OrphanChip.parts[k].chip_type \notin DOMAIN last.cache0)
                => /\ last.error = NoError
                   /\ chips_cache["Orphan"] = OrphanChip)
    /\ [][(/\ stack # <<>>
           /\ stack' = <<>>
           /\ call.chip_def = OrphanChip
           /\ FullInputs(OrphanChip, call.inputs))
            => IF Unresolvable("Ghost")
               THEN /\ last'.error = UnknownChip("Ghost")
                    /\ chips_cache' = chips_cache
               ELSE /\ last'.error = NoError
                    /\ "Ghost" \in DOMAIN chips_cache
                    /\ last'.outputs
                        = Denote(OrphanChip, chips_cache, call.inputs)]_vars

\* the first simulate of Orphan failed on the unknown type Ghost, and the
\* same call, made again after Ghost became resolvable, succeeds
C14_Witness ==
    /\ Returned
    /\ <<last.chip_def, last.inputs>> = ParseProbe
    /\ memo.seen /\ memo.again
    /\ memo.outcome.error = UnknownChip("Ghost")
    /\ "Orphan" \in DOMAIN memo.outcome.cache0
    /\ last.error = NoError
    /\ last.outputs = [out |-> 1]

\* C15: a relaxation loop that sees a change in every pass makes exactly
\* 100 passes, and simulate then returns, without an error, the values the
\* environment holds for the declared outputs after the last pass.
C15_CapReachedReturnsNormally ==
    /\ [](\A k \in 1..Len(stack) : stack[k].iteration < 100)
    /\ [][(/\ stack # <<>>
           /\ Len(stack') < Len(stack)
           /\ Top.i > Len(Top.chip_def.parts)
           /\ Top.changed)
            => /\ Top.iteration + 1 = 100
               /\ Len(stack) = 1
                    => /\ last'.op = "simulate"
                       /\ last'.error = NoError
                       /\ last'.passes = 100
                       /\ DOMAIN last'.outputs = SeqToSet(Top.chip_def.outputs)
                       /\ \A p \in DOMAIN last'.outputs :
                            last'.outputs[p] = Get(signal_values, p, 0)]_vars

C15_Witness ==
    /\ Succeeded
    /\ last.chip_def = parse_hdl(OscSrc, EmptyDict).chip_def
    /\ last.passes = 100
    /\ ~last.stable
    /\ last.outputs = [out |-> 0]

\* C16: parse_hdl on a text without a CHIP block fails with the format
\* error, returns no definition and leaves the registry as it was before
\* the call; a text with a CHIP block does not fail.
C16_InvalidTextKeepsRegistry ==
    last.op = "parse_hdl" =>
        IF last.inputs.content.chip
        THEN last.error = NoError
        ELSE /\ last.error = InvalidFormat
             /\ last.error.msg = "Invalid HDL format - no CHIP definition found"
             /\ last.chip_def = None
             /\ chips_cache = last.cache0

\* the format error was raised with definitions other than the built-ins in
\* the registry
C16_Witness ==
    /\ last.op = "parse_hdl"
    /\ last.error = InvalidFormat
    /\ DOMAIN chips_cache # DOMAIN built_in_chips
    /\ chips_cache = last.cache0

\* a step that is a call of parse_hdl or parse_file on the API
ParseStep ==
    /\ stack = <<>> /\ stack' = <<>>
    /\ last'.op \in {"parse_hdl", "parse_file"}
    /\ (last' # last \/ chips_cache' # chips_cache)

\* C17: every name of the registry is bound to a definition of a chip of
\* that name; a successful parse binds the name of the parsed chip to the
\* definition it returns and leaves every other entry alone, so each name
\* is bound to its most recent parse; parsing the same text a second time
\* does not change the set of names.
C17_LastParsedWins ==
    /\ [](\A n \in DOMAIN chips_cache : chips_cache[n].name = n)
    /\ [][(ParseStep /\ last'.error = NoError)
            => /\ chips_cache'[last'.chip_def.name] = last'.chip_def
               /\ \A n \in DOMAIN chips_cache' \ {last'.chip_def.name} :
                    n \in DOMAIN chips_cache /\ chips_cache'[n] = chips_cache[n]
               /\ \A n \in DOMAIN chips_cache : n \in DOMAIN chips_cache'
               /\ (last.op = last'.op /\ last.inputs = last'.inputs
                   /\ last.error = NoError /\ last'.op = "parse_hdl")
                    => DOMAIN chips_cache' = DOMAIN chips_cache]_vars

\* parse_hdl replaced the definition that an earlier parse had bound to
\* Ghost
C17_Witness ==
    /\ last.op = "parse_hdl"
    /\ last.error = NoError
    /\ "Ghost" \in DOMAIN last.cache0
    /\ last.cache0["Ghost"] # last.chip_def
    /\ chips_cache["Ghost"] = last.chip_def

\* C18: the registry always has the keys Nand, Not, And and Or, and no step
\* of a parse, resolve or simulate call, failing or not, removes a key.
C18_RegistryKeysNeverShrink ==
    /\ []({"Nand", "Not", "And", "Or"} \subseteq DOMAIN chips_cache)
    /\ [][DOMAIN chips_cache \subseteq DOMAIN chips_cache']_vars

\* the registry has grown and the last call failed
C18_Witness ==
    /\ Cardinality(DOMAIN chips_cache) >= 6
    /\ last.op \in {"simulate", "parse_hdl", "parse_file"}
    /\ last.error # NoError

\* the sources of all connections of all parts of a definition
ConnectionSources(chip_def) ==
    UNION {{chip_def.parts[k].connections[i].source :
                i \in 1..Len(chip_def.parts[k].connections)} :
            k \in 1..Len(chip_def.parts)}

ConnectionDestinations(chip_def) ==
    UNION {{chip_def.parts[k].connections[i].destination :
                i \in 1..Len(chip_def.parts[k].connections)} :
            k \in 1..Len(chip_def.parts)}

\* C19: the internal pins of every definition in the registry are the
\* connection sources that are neither declared inputs nor declared
\* outputs; they are disjoint from the declared pins, and a destination is
\* among them only if it is such a source.
C19_InternalPinsAreUndeclaredSources ==
    \A n \in DOMAIN chips_cache :
        LET d == chips_cache[n]
            declared == SeqToSet(d.inputs) \cup SeqToSet(d.outputs)
        IN  /\ d.internal_pins = ConnectionSources(d) \ declared
            /\ d.internal_pins \cap declared = {}
            /\ \A p \in ConnectionDestinations(d) \cap d.internal_pins :
                    p \in ConnectionSources(d) /\ p \notin declared

\* a parsed definition with an internal pin that feeds an input pin of a
\* part, and with connection sources that are declared pins
C19_Witness ==
    /\ "Ghost" \in DOMAIN chips_cache
    /\ chips_cache["Ghost"].internal_pins = {"t"}
    /\ ConnectionSources(chips_cache["Ghost"]) = {"in", "t", "out"}
    /\ last.op = "parse_hdl"

\* the inputs with 0 for every declared input that is not given
ZeroExtended(chip_def, inputs) ==
    [p \in (DOMAIN inputs) \cup SeqToSet(chip_def.inputs) |->
        IF p \in DOMAIN inputs THEN inputs[p] ELSE 0]

\* C20: simulate with declared inputs left out has the outcome of the call
\* with 0 given for them, and a primitive part with an unconnected input pin
\* is evaluated with 0 on that pin: the Nand and the Not of Float drive 1.
C20_MissingInputsAreZero ==
    /\ (/\ Returned
        /\ memo.seen
        /\ last.chip_def = memo.probe[1]
        /\ ZeroExtended(last.chip_def, last.inputs) = memo.probe[2]
        /\ last.cache0 = memo.outcome.cache0)
            => /\ last.outputs = memo.outcome.outputs
               /\ last.error = memo.outcome.error
    /\ (Returned /\ last.chip_def = FloatChip)
            => /\ last.error = NoError
               /\ last.outputs = [x |-> 1, y |-> 1]

\* a composite chip was simulated with every input given and then with an
\* input left out
C20_Witness ==
    /\ Succeeded
    /\ memo.seen
    /\ last.chip_def = memo.probe[1]
    /\ last.chip_def.parts # <<>>
    /\ last.inputs # memo.probe[2]
    /\ DOMAIN last.inputs # DOMAIN memo.probe[2]
    /\ ZeroExtended(last.chip_def, last.inputs) = memo.probe[2]
    /\ last.cache0 = memo.outcome.cache0
    /\ last.outputs = memo.outcome.outputs
    /\ \E p \in DOMAIN last.outputs : last.outputs[p] = 1

----------------------------------------------------------------------------
(* Errors of nested parts, the test runner and the command line             *)

\* Sessions in the directory of Nest.hdl, which gains Ghost.hdl on the way
NestDir ==
    [f \in {"Nest.hdl", "Orphan.hdl", "Bad.hdl"} |->
        IF f = "Nest.hdl" THEN NestSrc
        ELSE IF f = "Orphan.hdl" THEN OrphanSrc ELSE NoChipSrc]

InitNest ==
    /\ Fresh(NestDir)
    /\ memo = NoMemo

NextNest ==
    \/ \E chip_def \in Definitions :
            \E inputs \in InputDicts(chip_def) : Simulate(chip_def, inputs)
    \/ SimulateBuiltinPart
    \/ SimulateCustom
    \/ NextPass
    \/ Return
    \/ \E filename \in FileNames : ParseFile(filename)
    \/ \E filename \in DOMAIN NewFiles : WriteFile(filename)

SpecNest == InitNest /\ [][NextNest]_vars

\* simulate is about to evaluate a part whose type cannot be resolved or
\* whose source unit cannot be parsed
ResolveFails ==
    /\ stack # <<>>
    /\ Top.i <= Len(Top.chip_def.parts)
    /\ CurrentPart.chip_type \notin DOMAIN built_in_chips
    /\ LET g == get_chip_definition(CurrentPart.chip_type, chips_cache)
       IN  g.error # NoError \/ g.chip_def = None

\* the error of that resolution
ResolveError ==
    LET g == get_chip_definition(CurrentPart.chip_type, chips_cache)
    IN  IF g.error # NoError THEN g.error
        ELSE UnknownChip(CurrentPart.chip_type)

\* C21: when the type of a part cannot be resolved or parsed, at whatever
\* depth of nested simulate calls, the top-level call ends in that step with
\* that same error and without outputs; no activation is left to evaluate
\* another part or pass, and no signal is written.
C21_NestedErrorPropagates ==
    [][ResolveFails
        => /\ stack' = <<>>
           /\ call' = NoCall
           /\ last'.op = "simulate"
           /\ last'.chip_def = call.chip_def
           /\ last'.inputs = call.inputs
           /\ last'.error = ResolveError
           /\ last'.outputs = None
           /\ signal_values' = signal_values]_vars

\* Nest has no part of type Ghost itself: the error comes from two levels
\* below the call
C21_Witness ==
    /\ stack = <<>>
    /\ last.op = "simulate"
    /\ last.chip_def # None
    /\ last.chip_def.name = "Nest"
    /\ \A k \in 1..Len(last.chip_def.parts) :
            last.chip_def.parts[k].chip_type # "Ghost"
    /\ last.error = UnknownChip("Ghost")
    /\ last.outputs = None

\* run_tests has the outputs of simulate for its current vector in hand
Checking ==
    /\ runner.active
    /\ runner.called
    /\ stack = <<>>
    /\ last.op = "simulate"
    /\ last.error = NoError

\* the value simulate returned for a pin; a pin it returned nothing for
\* reads 0
SimulatedValue(pin_name) ==
    IF pin_name \in DOMAIN last.outputs THEN last.outputs[pin_name] ELSE 0

\* the current vector agrees with the outputs on every pin it expects
VectorHolds ==
    LET expected == runner.test_cases[runner.k].expected_outputs
    IN  \A pin_name \in DOMAIN expected :
            SimulatedValue(pin_name) = expected[pin_name]

\* the count of passed vectors after the step that checks the current one
PassedAfter ==
    IF runner'.active THEN runner'.passed ELSE last'.outputs.passed

\* C22: the vector in hand is counted as passed iff every pin of its expected
\* mapping has the expected simulated value (pins outside the expected
\* mapping are not looked at); run_tests returns (passed, total) with total
\* the number of vectors read and 0 <= passed <= total.
C22_VerdictFromExpectedPins ==
    /\ [][Checking
            => /\ PassedAfter = runner.passed + (IF VectorHolds THEN 1 ELSE 0)
               /\ PassedAfter <= runner.k
               /\ (~runner'.active
                    => /\ last'.op = "run_tests"
                       /\ last'.outputs.total = Len(runner.test_cases)
                       /\ runner.k = Len(runner.test_cases))]_vars
    /\ []((last.op = "run_tests" /\ last.error = NoError)
            => /\ last.outputs.passed >= 0
               /\ last.outputs.passed <= last.outputs.total
               /\ (last.inputs.test_file \in DOMAIN test_files
                    => last.outputs.total =
                        Len(_read_test_file(
                            test_files[last.inputs.test_file]).test_cases)))

\* HalfAdder against Sum.tst: the first vector passes although carry = 1 is
\* returned and not expected, the second fails
C22_Witness ==
    /\ last.op = "run_tests"
    /\ last.error = NoError
    /\ last.inputs = Paths("HalfAdder.hdl", "Sum.tst")
    /\ last.outputs = [passed |-> 1, total |-> 2]

----------------------------------------------------------------------------
(* cli.py: one process per specification behaviour *)

\* the directories the command line is run in
CliDirs ==
    {dir \in Dirs : \/ "HalfAdder.hdl" \in DOMAIN dir
                    \/ "Inv.hdl" \in DOMAIN dir
                    \/ "Orphan.hdl" \in DOMAIN dir}

ProgramName == "hdl_parser"

\* sys.argv: the program name and up to three arguments
Argvs ==
    {<<ProgramName>>}
        \cup {<<ProgramName, c>> : c \in FileNames}
        \cup {<<ProgramName, c, t>> : c \in FileNames, t \in TestFileNames}
        \cup {<<ProgramName, c, t, t>> : c \in {"Missing.hdl"},
                                         t \in {"Missing.tst"}}

\* sys.exit(code) before run_tests is called
Exit(argv, code) ==
    /\ last' = Outcome("main", None, [argv |-> argv], chips_cache,
                       [exit_code |-> code], NoError, 0, FALSE)
    /\ UNCHANGED <<files, chips_cache, signal_values, stack, call, obs, memo,
                   runner>>

\* main(), up to the loop of run_tests: the argument count, the two paths,
\* then a new parser, simulator and runner
Main(argv) ==
    /\ stack = <<>>
    /\ ~runner.active
    /\ last = NoOutcome
    /\ chips_cache = InitialCache
    /\ IF Len(argv) # 3
       THEN Exit(argv, 1)
       ELSE IF argv[2] \notin DOMAIN files
       THEN Exit(argv, 2)
       ELSE IF argv[3] \notin DOMAIN test_files
       THEN Exit(argv, 2)
       ELSE RunTests(argv[2], argv[3])

\* the process has ended
Exited == last.op \in {"main", "run_tests"}

\* the exit status of the ended process: the one of an early sys.exit, or
\* the one main derives from what run_tests returned or raised
ExitCode ==
    IF last.op = "main" THEN last.outputs.exit_code
    ELSE IF last.error # NoError THEN 2
    ELSE IF last.outputs.passed = last.outputs.total THEN 0
    ELSE 1

InitCli ==
    /\ \E dir \in CliDirs : Fresh(dir)
    /\ memo = NoMemo

NextCli ==
    \/ \E argv \in Argvs : Main(argv)
    \/ RunTestsSimulate
    \/ SimulateBuiltinPart
    \/ SimulateCustom
    \/ NextPass
    \/ Return
    \/ RunTestsCheck

SpecCli == InitCli /\ [][NextCli]_vars

\* the process ended on an error: a wrong command line, a missing file, or
\* an exception of run_tests
EndedOnError ==
    \/ last.op = "main"
    \/ last.op = "run_tests" /\ last.error # NoError

\* run_tests returned, and some vector did not pass
VectorFailed ==
    /\ last.op = "run_tests"
    /\ last.error = NoError
    /\ last.outputs.passed < last.outputs.total

\* C23: the process exits with 0 iff run_tests returned and every vector
\* passed, with 1 iff run_tests returned and some vector failed, and with 2
\* iff it ended on an error; code 1 comes from a failing vector only.
C23_ExitCodes ==
    Exited
        => /\ ExitCode \in {0, 1, 2}
           /\ (ExitCode = 2) = EndedOnError
           /\ (ExitCode = 1) = VectorFailed
           /\ (ExitCode = 0) = (~EndedOnError /\ ~VectorFailed)

----------------------------------------------------------------------------
(* _read_test_file on the texts of a bounded alphabet of lines *)

MaxLines == 4

\* the lines of the texts: a blank one, a comment, one without ';', a
\* header, two rows of the header's width and one of another width
FileLines ==
    {Line("blank", <<>>, <<>>),
     Line("comment", <<>>, <<>>),
     Line("plain", <<>>, <<>>),
     Row(<<"a", "b">>, <<"out">>),
     Row(<<"0", "1">>, <<"1">>),
     Row(<<"1", "1">>, <<"0">>),
     Row(<<"1">>, <<"1", "0">>)}

TestTexts == UNION {[1..n -> FileLines] : n \in 0..MaxLines}

\* _read_test_file called on a file with these lines, once in a session
ReadTestFile(lines) ==
    /\ stack = <<>>
    /\ ~runner.active
    /\ last = NoOutcome
    /\ LET r == _read_test_file(lines)
       IN  last' = Outcome("_read_test_file", None, [lines |-> lines],
                           chips_cache, r.test_cases, r.error, 0, FALSE)
    /\ UNCHANGED <<files, chips_cache, signal_values, stack, call, obs, memo,
                   runner>>

InitRead ==
    /\ Fresh(EmptyDir)
    /\ memo = NoMemo

NextRead == \E lines \in TestTexts : ReadTestFile(lines)

SpecRead == InitRead /\ [][NextRead]_vars

\* the lines of a text that are neither blank nor comments, in order
Kept(lines) ==
    SelectSeq(lines, LAMBDA l : l.kind \notin {"blank", "comment"})

\* the binding of the values of one side of a row to the names of the same
\* side of the header, position by position
Bound(names, tokens) ==
    LET n == IF Len(names) < Len(tokens) THEN Len(names) ELSE Len(tokens)
    IN  [nm \in {names[j] : j \in 1..n} |->
            LET j == CHOOSE j \in 1..n : names[j] = nm
            IN  IF tokens[j] = "1" THEN 1 ELSE 0]

\* a row of values
IsVector(line) ==
    /\ line.kind = "row"
    /\ \A t \in SeqToSet(line.left) \cup SeqToSet(line.right) :
            t \in {"0", "1"}

\* the names of one side of a header, no name twice
PinNames(tokens) ==
    \A i, j \in 1..Len(tokens) : tokens[i] = tokens[j] => i = j

\* C24: in a test-vector file with a header of pin names, the first line
\* that is neither blank nor a comment is the header and the k-th later such
\* line that is a row of values is the k-th vector, its values bound
\* position by position to the header's names; the blank and comment lines,
\* wherever they are, change nothing: the file reads as the file without
\* them.
C24_HeaderAndVectors ==
    (last.op = "_read_test_file"
       /\ Kept(last.inputs.lines) # <<>>
       /\ Kept(last.inputs.lines)[1].kind = "row"
       /\ PinNames(Kept(last.inputs.lines)[1].left)
       /\ PinNames(Kept(last.inputs.lines)[1].right))
        => LET kept == Kept(last.inputs.lines)
               header == kept[1]
               rows == SelectSeq(Tail(kept), IsVector)
           IN  /\ last.error = NoError
               /\ Len(last.outputs) = Len(rows)
               /\ \A k \in 1..Len(rows) :
                    /\ last.outputs[k].inputs =
                            Bound(header.left, rows[k].left)
                    /\ last.outputs[k].expected_outputs =
                            Bound(header.right, rows[k].right)
               /\ last.outputs = _read_test_file(kept).test_cases

\* a comment before the header and a blank line between two vectors
C24_Witness ==
    /\ last.op = "_read_test_file"
    /\ last.inputs.lines =
            <<Line("comment", <<>>, <<>>), Row(<<"a", "b">>, <<"out">>),
              Row(<<"0", "1">>, <<"1">>), Line("blank", <<>>, <<>>)>>
    /\ last.outputs =
            <<TestCase([a |-> 0, b |-> 1], [out |-> 1])>>

----------------------------------------------------------------------------
(* The parts list of a parsed chip *)

\* the parts of chip_def are named by their type and 0-based position
NamedByPosition(chip_def) ==
    \A k \in 1..Len(chip_def.parts) :
        chip_def.parts[k].name =
            chip_def.parts[k].chip_type \o "_" \o ToString(k - 1)

\* no two parts of chip_def have the same instance name
DistinctNames(chip_def) ==
    \A i, j \in 1..Len(chip_def.parts) :
        chip_def.parts[i].name = chip_def.parts[j].name => i = j

\* the parts of chip_def are the instantiations of the text, in its order
InDeclarationOrder(chip_def, content) ==
    /\ Len(chip_def.parts) = Len(content.parts)
    /\ \A k \in 1..Len(content.parts) :
        /\ chip_def.parts[k].chip_type = content.parts[k].type
        /\ Len(chip_def.parts[k].connections) = Len(content.parts[k].conns)
        /\ \A c \in 1..Len(content.parts[k].conns) :
            /\ chip_def.parts[k].connections[c].destination =
                    content.parts[k].conns[c][1]
            /\ chip_def.parts[k].connections[c].source =
                    content.parts[k].conns[c][2]

\* C25: every chip the parser has put into the registry has its parts named
\* "<type>_k" by their 0-based position k, so its instance names are
\* pairwise distinct, and the chip parse_hdl returns has the parts of its
\* text in the order of the PARTS section.
C25_PartsInOrderWithPositionNames ==
    /\ \A n \in DOMAIN chips_cache :
        /\ NamedByPosition(chips_cache[n])
        /\ DistinctNames(chips_cache[n])
    /\ (last.op = "parse_hdl" /\ last.error = NoError)
        => /\ InDeclarationOrder(last.chip_def, last.inputs.content)
           /\ NamedByPosition(last.chip_def)
           /\ DistinctNames(last.chip_def)
    /\ \A f \in DOMAIN files :
        (files[f].chip /\ files[f].name \in DOMAIN chips_cache
            /\ last.op = "parse_file" /\ last.error = NoError
            /\ last.chip_def.name = files[f].name)
            => InDeclarationOrder(last.chip_def, files[f])

\* two parts of the same type, Not_0 and Not_1, in the order of the text
C25_Witness ==
    /\ last.op = "parse_hdl"
    /\ last.inputs.content = GhostBufSrc
    /\ Len(last.chip_def.parts) = 2
    /\ last.chip_def.parts[1].name = "Not_0"
    /\ last.chip_def.parts[2].name = "Not_1"
    /\ last.chip_def.parts[1].connections[2].source = "t"
    /\ chips_cache["Ghost"] = last.chip_def

----------------------------------------------------------------------------
(* The relaxation loop *)

\* an activation of simulate leaves its loop in this step
LoopEnds ==
    /\ stack # <<>>
    /\ Top.i > Len(Top.chip_def.parts)
    /\ Len(stack') < Len(stack)

\* the evaluation of a part of the activation at depth d is over in this
\* step
PartDone(d) ==
    /\ d \in 1..Len(stack)
    /\ Len(stack') = d
    /\ stack'[d].iteration = stack[d].iteration
    /\ stack'[d].i = stack[d].i + 1

\* the environment of that activation before the part was evaluated
BeforePart(d) == IF d = Len(stack) THEN signal_values ELSE Top.before

\* C26: the loop of simulate on an acyclic chip with fewer parts than the
\* cap, composite parts included, ends after a pass without a reported
\* change, and a part reports a change only when some signal of the
\* enclosing chip reads otherwise than before the part was evaluated.
C26_EarlyStopAndRealChanges ==
    [][/\ (LoopEnds
            /\ Len(Top.chip_def.parts) < max_iterations
            /\ WellFormed(Top.chip_def, chips_cache, {}))
            => ~Top.changed
       /\ \A d \in 1..Len(stack) :
            (PartDone(d) /\ stack'[d].changed /\ ~stack[d].changed)
                => \E s \in DOMAIN BeforePart(d) \cup DOMAIN signal_values' :
                        Get(BeforePart(d), s, 0) # Get(signal_values', s, 0)
      ]_vars

----------------------------------------------------------------------------
(* A composite chip with the name of a built-in *)

\* tests/test_integration.py, test_failed_tests_reporting: a chip named And
\* that is made of an Or
BrokenAndSrc ==
    Source("And", <<"a", "b">>, <<"out">>,
        <<Part("Or", <<<<"a", "a">>, <<"b", "b">>, <<"out", "out">>>>)>>)

\* a chip with one part of type And
UsesAndSrc ==
    Source("UsesAnd", <<"a", "b">>, <<"out">>,
        <<Part("And", <<<<"a", "a">>, <<"b", "b">>, <<"out", "out">>>>)>>)

\* a chip whose only part is UsesAnd
WrapSrc ==
    Source("Wrap", <<"a", "b">>, <<"out">>,
        <<Part("UsesAnd", <<<<"a", "a">>, <<"b", "b">>, <<"out", "out">>>>)>>)

ShadowDir ==
    [f \in {"And.hdl", "UsesAnd.hdl", "Wrap.hdl"} |->
        IF f = "And.hdl" THEN BrokenAndSrc
        ELSE IF f = "UsesAnd.hdl" THEN UsesAndSrc ELSE WrapSrc]

InitShadow ==
    /\ Fresh(ShadowDir)
    /\ memo = NoMemo

NextShadow ==
    \/ \E chip_def \in Definitions :
            \E inputs \in InputDicts(chip_def) : Simulate(chip_def, inputs)
    \/ SimulateBuiltinPart
    \/ SimulateCustom
    \/ NextPass
    \/ Return
    \/ \E filename \in FileNames : ParseFile(filename)

SpecShadow == InitShadow /\ [][NextShadow]_vars

\* simulate is about to evaluate a part with the name of a built-in
NamedPartAhead ==
    /\ stack # <<>>
    /\ Top.i <= Len(Top.chip_def.parts)
    /\ CurrentPart.chip_type \in DOMAIN built_in_chips

\* the values on the input pins of the registry definition of the part's
\* type: the signals connected to them, 0 for a pin without connection
PinValues(part, chip_def) ==
    [pin \in SeqToSet(chip_def.inputs) |->
        IF \E i \in 1..Len(part.connections) :
                part.connections[i].destination = pin
        THEN Get(signal_values,
                 part.connections[LastIndex(part.connections, pin)].source, 0)
        ELSE 0]

\* what simulate(registry[T], inputs) returns: the gate function for a
\* definition without parts, the function of its circuit otherwise
RegistryOutputs(chip_def, inputs) ==
    IF chip_def.parts = <<>>
    THEN [p \in SeqToSet(chip_def.outputs) |->
            Gate(chip_def.name,
                 IF chip_def.name = "Not" THEN inputs["in"] ELSE inputs["a"],
                 IF chip_def.name = "Not" THEN 0 ELSE inputs["b"])]
    ELSE Denote(chip_def, chips_cache, inputs)

\* C27: a part with the name of a built-in is evaluated as its registry
\* definition says: after the evaluation, every signal connected to an
\* output of the part reads what simulate of the registry definition of the
\* part's type returns for the values on the part's input pins, be that
\* definition the primitive or a composite chip parsed under the name.
C27_PartFollowsRegistry ==
    [][NamedPartAhead
        => LET part == CurrentPart
               chip_def == chips_cache[part.chip_type]
               outputs == RegistryOutputs(chip_def, PinValues(part, chip_def))
           IN  \A p \in SeqToSet(chip_def.outputs) :
                    (\E i \in 1..Len(part.connections) :
                        part.connections[i].destination = p)
                    => Get(signal_values',
                           part.connections[LastIndex(part.connections,
                                                      p)].source, 0)
                        = outputs[p]]_vars

----------------------------------------------------------------------------
(* The environment after the loop *)

\* the value in the environment of the signal connected to a pin of the
\* part, 0 for a pin without connection
PinSignal(part, pin) ==
    IF LastIndex(part.connections, pin) = 0
    THEN 0
    ELSE Get(signal_values,
             part.connections[LastIndex(part.connections, pin)].source, 0)

\* the part's out signal has the value of the gate function of the part's
\* type on the current values of its input signals
AtFixedPoint(part) ==
    LastIndex(part.connections, "out") # 0
        => PinSignal(part, "out") =
            Gate(part.chip_type,
                 IF part.chip_type = "Not" THEN PinSignal(part, "in")
                 ELSE PinSignal(part, "a"),
                 IF part.chip_type = "Not" THEN 0 ELSE PinSignal(part, "b"))

\* C28: when simulate of a chip with only primitive parts has left its loop
\* after a pass without a reported change, the environment is a fixed
\* point of every part with an out connection; and a part that reports no
\* change has changed no signal, so the last pass changed none.
C28_StableEnvironmentIsFixedPoint ==
    /\ []((/\ Succeeded
           /\ last.chip_def.parts # <<>>
           /\ AllPrimitive(last.chip_def)
           /\ last.stable)
            => \A k \in 1..Len(last.chip_def.parts) :
                    AtFixedPoint(last.chip_def.parts[k]))
    /\ [][(/\ stack # <<>>
           /\ AllPrimitive(Top.chip_def)
           /\ PartDone(Len(stack))
           /\ stack'[Len(stack)].changed = Top.changed)
            => (Top.changed \/ signal_values' = signal_values)]_vars

\* Xor with its five parts in reverse order: several passes, then a pass
\* without change
C28_Witness ==
    /\ Succeeded
    /\ last.chip_def = Reversed(XorChip)
    /\ last.inputs = [a |-> 1, b |-> 0]
    /\ last.stable
    /\ last.passes > 2
    /\ last.passes < max_iterations
    /\ signal_values["out"] = 1
    /\ \A k \in 1..Len(last.chip_def.parts) :
            AtFixedPoint(last.chip_def.parts[k])

----------------------------------------------------------------------------
(* main.py: the standalone script, its parser and simulator computed from   *)
(* a new HDLParser and ChipSimulator; the names of main.py with the prefix  *)
(* main_, since they are those of the package                               *)

\* HDLParser.__init__ of main.py: the registry starts empty
main_InitialCache == EmptyDict

\* the internal pins parse_hdl of main.py collects from one part: every
\* source and every destination that is no declared pin of the chip
main_PartInternalPins(connections, inputs, outputs) ==
    {connections[i].source : i \in
        {j \in 1..Len(connections) :
            /\ connections[j].source \notin SeqToSet(inputs)
            /\ connections[j].source \notin SeqToSet(outputs)}}
    \cup
    {connections[i].destination : i \in
        {j \in 1..Len(connections) :
            /\ connections[j].destination \notin SeqToSet(inputs)
            /\ connections[j].destination \notin SeqToSet(outputs)}}

\* parse_hdl(content, chip_name) of main.py; chip_name is not used
main_parse_hdl(content, chip_name, cache) ==
    IF ~content.chip
    THEN [chip_def |-> None, chips_cache |-> cache, error |-> InvalidFormat]
    ELSE LET parts == [k \in 1..Len(content.parts) |->
                        ChipInstance(content.parts[k].type,
                            content.parts[k].type \o "_" \o ToString(k - 1),
                            _parse_connections(content.parts[k].conns))]
             internal_pins ==
                UNION {main_PartInternalPins(parts[k].connections,
                                             content.ins, content.outs) :
                        k \in 1..Len(parts)}
             chip_def == ChipDefinition(content.name, content.ins,
                                        content.outs, parts, internal_pins)
         IN  [chip_def |-> chip_def,
              chips_cache |-> Put(cache, content.name, chip_def),
              error |-> NoError]

\* parse_file(filename) of main.py; path.stem is the name without ".hdl"
main_parse_file(filename, cache) ==
    IF filename \notin DOMAIN files
    THEN [chip_def |-> None, chips_cache |-> cache,
          error |-> FileNotFound(filename)]
    ELSE main_parse_hdl(files[filename], filename, cache)

\* the output value _simulate_builtin of main.py computes: 0 unless every
\* input pin of the gate has a connection
main_output_val(chip_type, input_vals) ==
    IF chip_type = "Nand"
    THEN IF {"a", "b"} \subseteq DOMAIN input_vals
         THEN IF Truthy(input_vals["a"]) /\ Truthy(input_vals["b"])
              THEN 0 ELSE 1
         ELSE 0
    ELSE IF chip_type = "Not"
    THEN IF "in" \in DOMAIN input_vals
         THEN IF Truthy(input_vals["in"]) THEN 0 ELSE 1
         ELSE 0
    ELSE IF chip_type = "And"
    THEN IF {"a", "b"} \subseteq DOMAIN input_vals
         THEN IF Truthy(input_vals["a"]) /\ Truthy(input_vals["b"])
              THEN 1 ELSE 0
         ELSE 0
    ELSE IF chip_type = "Or"
    THEN IF {"a", "b"} \subseteq DOMAIN input_vals
         THEN IF Truthy(input_vals["a"]) \/ Truthy(input_vals["b"])
              THEN 1 ELSE 0
         ELSE 0
    ELSE 0

\* _simulate_builtin(part) of main.py: every connection to out is written
main__simulate_builtin(part, sv) ==
    LET conns == part.connections
        in_pins == {d \in {"a", "b", "in"} : LastIndex(conns, d) # 0}
        input_vals == [d \in in_pins |->
                        Get(sv, conns[LastIndex(conns, d)].source, 0)]
        output_val == main_output_val(part.chip_type, input_vals)
        outs == {i \in 1..Len(conns) : conns[i].destination = "out"}
        written == {conns[i].source : i \in outs}
    IN  [signal_values |->
            [s \in DOMAIN sv \cup written |->
                IF s \in written THEN output_val ELSE sv[s]],
         changed |-> \E i \in outs : Get(sv, conns[i].source, 0) # output_val]

\* the second loop of _simulate_custom of main.py: the outputs of the
\* sub-chip written to the environment, connection by connection
main_WriteBack(part, chip_def, sub_outputs, sv) ==
    LET conns == part.connections
        outs == {i \in 1..Len(conns) :
                    conns[i].destination \in SeqToSet(chip_def.outputs)}
        written == {conns[i].source : i \in outs}
        last_write(s) == CHOOSE i \in outs :
                            /\ conns[i].source = s
                            /\ \A j \in outs : conns[j].source = s => j <= i
        old_val(i) ==
            LET earlier == {j \in outs : j < i
                                /\ conns[j].source = conns[i].source}
            IN  IF earlier = {}
                THEN Get(sv, conns[i].source, 0)
                ELSE sub_outputs[conns[CHOOSE j \in earlier :
                            \A l \in earlier : l <= j].destination]
    IN  [signal_values |->
            [s \in DOMAIN sv \cup written |->
                IF s \in written
                THEN sub_outputs[conns[last_write(s)].destination]
                ELSE sv[s]],
         changed |-> \E i \in outs :
                        old_val(i) # sub_outputs[conns[i].destination]]

\* the environment simulate of main.py builds before its loop: the inputs,
\* then 0 for the internal pins; the outputs are not entered
main_InitialSignals(chip_def, inputs) ==
    [s \in DOMAIN inputs \cup chip_def.internal_pins |->
        IF s \in chip_def.internal_pins THEN 0 ELSE inputs[s]]

\* the loop of simulate of main.py from part i of pass iteration on, with
\* the nested calls of _simulate_custom; returns the environment, the
\* registry and the error
RECURSIVE main_Loop(_, _, _, _, _, _, _)
main_Loop(chip_def, sv, cache, iteration, i, changed, depth) ==
    IF i > Len(chip_def.parts)
    THEN IF changed /\ iteration + 1 < max_iterations
         THEN main_Loop(chip_def, sv, cache, iteration + 1, 1, FALSE, depth)
         ELSE [signal_values |-> sv, chips_cache |-> cache,
               error |-> NoError]
    ELSE LET part == chip_def.parts[i]
         IN  IF part.chip_type \in DOMAIN built_in_chips
             THEN LET r == main__simulate_builtin(part, sv)
                  IN  main_Loop(chip_def, r.signal_values, cache, iteration,
                                i + 1, changed \/ r.changed, depth)
             ELSE LET p == IF part.chip_type \notin DOMAIN cache
                           THEN main_parse_file(part.chip_type \o ".hdl",
                                                cache)
                           ELSE [chip_def |-> cache[part.chip_type],
                                 chips_cache |-> cache, error |-> NoError]
                      sub_chip_def == p.chip_def
                      sub_inputs ==
                        [d \in {x \in SeqToSet(sub_chip_def.inputs) :
                                    LastIndex(part.connections, x) # 0} |->
                            Get(sv, part.connections[
                                    LastIndex(part.connections, d)].source,
                                0)]
                      sub == main_Loop(sub_chip_def,
                                main_InitialSignals(sub_chip_def, sub_inputs),
                                p.chips_cache, 0, 1, FALSE, depth + 1)
                      m == main_WriteBack(part, sub_chip_def,
                                ExtractOutputs(sub_chip_def,
                                               sub.signal_values),
                                sub.signal_values)
                  IN  IF p.error # NoError
                      THEN [signal_values |-> sv, chips_cache |-> cache,
                            error |-> p.error]
                      ELSE IF depth + 1 > RecursionLimit
                      THEN [signal_values |-> sv, chips_cache |-> cache,
                            error |-> RecursionError]
                      ELSE IF sub.error # NoError
                      THEN sub
                      ELSE main_Loop(chip_def, m.signal_values,
                                     sub.chips_cache, iteration, i + 1,
                                     changed \/ m.changed, depth)

\* simulate(chip_def, inputs) of main.py, called on a new simulator whose
\* parser has the registry cache: there is no branch for a definition
\* without parts
main_simulate(chip_def, inputs, cache) ==
    LET r == main_Loop(chip_def, main_InitialSignals(chip_def, inputs),
                       cache, 0, 1, FALSE, 1)
    IN  [outputs |-> IF r.error = NoError
                     THEN ExtractOutputs(chip_def, r.signal_values)
                     ELSE None,
         error |-> r.error]

----------------------------------------------------------------------------
(* Sessions of the package in a directory whose chips the script is run on  *)
(* as well                                                                  *)

\* FloatChip as a source unit
FloatSrc ==
    Source("Float", <<"a">>, <<"x", "y">>,
        <<Part("Nand", <<<<"a", "a">>, <<"out", "x">>>>),
          Part("Not", <<<<"out", "y">>>>)>>)

\* a chip whose only part is the composite Xor
TwiceSrc ==
    Source("Twice", <<"a", "b">>, <<"out">>,
        <<Part("Xor", <<<<"a", "a">>, <<"b", "b">>, <<"out", "out">>>>)>>)

MirrorDir ==
    [f \in {"Xor.hdl", "Float.hdl", "Twice.hdl"} |->
        IF f = "Xor.hdl" THEN XorSrc
        ELSE IF f = "Float.hdl" THEN FloatSrc ELSE TwiceSrc]

InitMirror ==
    /\ Fresh(MirrorDir)
    /\ memo = NoMemo

NextMirror ==
    \/ \E chip_def \in Definitions :
            \E inputs \in InputDicts(chip_def) : Simulate(chip_def, inputs)
    \/ SimulateBuiltinPart
    \/ SimulateCustom
    \/ NextPass
    \/ Return
    \/ \E filename \in FileNames : ParseFile(filename)

SpecMirror == InitMirror /\ [][NextMirror]_vars

\* the source units the package parses to chip_def
SourcesOf(chip_def) ==
    {f \in DOMAIN files :
        /\ files[f].chip
        /\ parse_hdl(files[f], InitialCache).chip_def = chip_def}

\* C29: whatever the package returns for a chip and inputs, the script
\* returns for the same chip and inputs: for a built-in definition passed
\* to simulate directly, and for a chip of a source unit, which the script
\* parses to the same internal pins and simulates to the same outputs.
C29_ScriptMirrorsPackage ==
    Succeeded
        => IF last.chip_def.parts = <<>>
           THEN main_simulate(last.chip_def, last.inputs,
                              main_InitialCache).outputs = last.outputs
           ELSE \A f \in SourcesOf(last.chip_def) :
                    LET p == main_parse_file(f, main_InitialCache)
                        r == main_simulate(p.chip_def, last.inputs,
                                           p.chips_cache)
                    IN  /\ p.error = NoError
                        /\ p.chip_def.internal_pins
                                = last.chip_def.internal_pins
                        /\ r.error = NoError
                        /\ r.outputs = last.outputs

====
